---- MODULE Spec2Model ----
(***************************************************************************)
(* Highlight lifecycle of the Expert Annotator extension.                  *)
(*                                                                         *)
(* Four execution contexts exchange chrome.runtime messages:               *)
(*   page    the content script of a flat (HTML) page    (Capture Agent)   *)
(*   viewer  the PDF viewer page with its overlay marks  (Overlay Engine)  *)
(*   bg      the background service worker               (Coordinator)     *)
(*   panel   the side panel                              (Control Panel)   *)
(* and the side panel talks to the persistence service (api.request).      *)
(*                                                                         *)
(* Identifiers are numbers; NoId stands for JavaScript's null.             *)
(* Coordinates are integers in thousandths of a CSS pixel.                 *)
(***************************************************************************)
EXTENDS Integers, Sequences, FiniteSets, TLC

\* ------------------------------------------------------------------ bounds
MaxLocal == 2      \* selections committed in one behaviour (localIds handed out)
MaxHid == 2        \* highlight ids the persistence service hands out
MaxCalls == 1      \* requests to the persistence service in flight at once
MaxInFlight == 2   \* messages and requests in flight when the annotator acts
MaxEpisodes == 2   \* timestamps the background worker hands out in one behaviour
MaxRenders == 2   \* calls of renderAllPages under way at once
MaxIntentRequests == 4   \* /ai/search-intent requests issued in one behaviour

\* --------------------------------------------------------------- constants
NoId == 0

LocalIds == 1..MaxLocal
HighlightIds == 1..MaxHid

PageUrl == "https://example.org/article"
PdfUrl == "https://example.org/paper.pdf"
ViewerTabUrl == "chrome-extension://ea/pdf_viewer.html?src=paper.pdf"
DocUrls == {PageUrl, PdfUrl}

\* The PDF has one page; pdf.js gives its size at scale 1 (100px x 100px).
Pages == {1}
BaseViewport == [width |-> 100000, height |-> 100000]

\* The scales the annotator zooms to, in hundredths; setScale clamps them to
\* [50, 400].
Scales == {40, 100, 200}

\* Client rectangles of the passages an annotator can select in the PDF, as
\* handleSelection stores them (already rounded to 2 decimals).
RectA == [x1 |-> 10000, y1 |-> 20000, x2 |-> 30000, y2 |-> 22000]
RectB == [x1 |-> 10000, y1 |-> 22000, x2 |-> 25000, y2 |-> 24000]
PdfSelections == {[rects |-> <<RectA>>, sentiment |-> "thumbsup"],
                  [rects |-> <<RectA, RectB>>, sentiment |-> "thumbsdown"]}

\* What the annotator can select on the flat page: two passages of its text,
\* and a passage inside an embedded PDF page (an element of class "page"
\* with a page number).
PageSelections == {[place |-> "text", passage |-> <<"first passage">>],
                   [place |-> "text", passage |-> <<"second passage">>],
                   [place |-> "pdf", passage |-> <<"embedded passage">>]}

\* What the annotator can select in the viewer: the passages of PdfSelections.
ViewerSelections == {[place |-> "pdf", passage |-> selection.rects] :
                       selection \in PdfSelections}

\* ------------------------------------------------------------ pure helpers
RECURSIVE GCD(_, _)
GCD(a, b) == IF b = 0 THEN a ELSE GCD(b, a % b)

Abs(v) == IF v < 0 THEN -v ELSE v

\* Number(v).toFixed(2): v in thousandths, rounded half up to hundredths.
ToFixed2(v) == ((v + 5) \div 10) * 10

\* A quotient a / b of two JavaScript numbers, kept as a reduced fraction.
Quot(a, b) == LET g == GCD(Abs(a), b) IN [n |-> a \div g, d |-> b \div g]

\* Math.abs(p - q) < 0.002 for two quotients.
Within002(p, q) == Abs(p.n * q.d - q.n * p.d) <= (p.d * q.d - 1) \div 500

normaliseRect(rect, viewport) ==
  [x1 |-> Quot(rect.x1, viewport.width),
   y1 |-> Quot(rect.y1, viewport.height),
   x2 |-> Quot(rect.x2, viewport.width),
   y2 |-> Quot(rect.y2, viewport.height)]

sentimentToOverlayColor(sentiment) ==
  IF sentiment = "thumbsup" THEN "positive"
  ELSE IF sentiment = "thumbsdown" THEN "negative"
  ELSE "neutral"

\* resolveOverlayColor: a colour key is kept, a sentiment is translated.
resolveOverlayColor(rawColor) ==
  IF rawColor \in {"positive", "negative", "neutral"} THEN rawColor
  ELSE IF rawColor = "secondary" THEN "neutral"
  ELSE sentimentToOverlayColor(rawColor)

\* The fingerprint string "x1:y1:x2:y2" of a rectangle, as the tuple of its
\* four formatted numbers.
Fingerprint(rect) ==
  <<ToFixed2(rect.x1), ToFixed2(rect.y1), ToFixed2(rect.x2), ToFixed2(rect.y2)>>

NoFingerprint == <<>>

\* fingerprintFromSelector: the fingerprint of the selector's first rect.
fingerprintFromSelector(rects) ==
  IF Len(rects) = 0 THEN NoFingerprint ELSE Fingerprint(rects[1])

\* { ...old, ...new }
Spread(old, new) ==
  [f \in (DOMAIN old) \cup (DOMAIN new) |-> IF f \in DOMAIN new THEN new[f] ELSE old[f]]

\* ---------------------------------------------------------- Overlay Engine
\* One rect of addOverlayHighlights' input turned into a mark.
NormalisedMark(rect, viewport) ==
  Spread(normaliseRect(rect, viewport),
         [color |-> resolveOverlayColor(rect.color),
          fingerprint |-> Fingerprint(rect),
          localId |-> rect.localId,
          highlightId |-> rect.highlightId])

\* The predicate of merged.findIndex in addOverlayHighlights.
InsertMatches(mark, existingMark) ==
  IF mark.highlightId # NoId /\ existingMark.highlightId # NoId
     /\ mark.highlightId = existingMark.highlightId
  THEN TRUE
  ELSE IF mark.localId # NoId /\ existingMark.localId # NoId
          /\ mark.localId = existingMark.localId
  THEN Within002(existingMark.x1, mark.x1) /\ Within002(existingMark.y1, mark.y1)
  ELSE mark.fingerprint # NoFingerprint /\ existingMark.fingerprint # NoFingerprint
       /\ mark.fingerprint = existingMark.fingerprint

\* Array.prototype.findIndex, 1-based; 0 when nothing matches.
FindIndex(merged, mark) ==
  LET hits == {i \in 1..Len(merged) : InsertMatches(mark, merged[i])}
  IN IF hits = {} THEN 0 ELSE CHOOSE i \in hits : \A j \in hits : i <= j

\* A merge that never looks for an existing mark.
MergeOne_AlwaysPush(merged, mark) == Append(merged, mark)

MergeOne(merged, mark) ==
  LET matchIndex == FindIndex(merged, mark)
  IN IF matchIndex > 0
     THEN [merged EXCEPT ![matchIndex] = Spread(merged[matchIndex], mark)]
     ELSE Append(merged, mark)

RECURSIVE MergeAll(_, _)
MergeAll(merged, marks) ==
  IF Len(marks) = 0 THEN merged
  ELSE MergeAll(MergeOne(merged, Head(marks)), Tail(marks))

MapNormalise(rects, viewport) ==
  [i \in 1..Len(rects) |-> NormalisedMark(rects[i], viewport)]

\* addOverlayHighlights on a page whose viewport exists: the new mark list.
MergedMarks(existing, rects, viewport) ==
  MergeAll(existing, MapNormalise(rects, viewport))

\* ------------------------------------------------------------------- state
VARIABLES
  \* page (content script of the flat page)
  highlightRegistry,     \* localId -> [highlightId, documentUrl]
  htmlMarks,             \* localId -> data attributes of the wrapped <span>
  \* viewer (pdf_viewer.js)
  pageViewports,         \* page -> viewport, or NoViewport before the page renders
  pageHighlightData,     \* page -> sequence of marks
  pendingHighlightQueue, \* page -> sequence of rects awaiting the viewport
  currentScale,          \* zoom of the viewer, in hundredths (100 is scale 1.0)
  viewerListening,       \* TRUE once the viewer has registered its onMessage listener
  \* panel (sidepanel.js)
  openTabs,              \* the tabs that are open: PageTab, ViewerTab
  currentSession,        \* TRUE while a session is active
  activeTab,             \* url of the browser's active tab
  documentsIndex,        \* url -> cached document entry
  storedDocuments,       \* url -> document entry in chrome.storage (DOCUMENTS)
  summary,               \* highlightSummary's entries
  card,                  \* the highlight card shown, NoCard when none
  activeHighlightRef,    \* [highlightId, localId] or NoRef
  \* persistence service
  apiCalls,              \* requests in flight
  nextHid,               \* highlight ids handed out so far
  \* chrome.runtime messages in flight, per receiving context
  inbox,
  nextLocal,             \* localIds handed out so far
  \* capture agents (the content script and the viewer)
  windowSelection,       \* agent -> what window.getSelection() holds
  pendingSelection,      \* agent -> the pending selection, NoPending when none
  lastSelectionSignature, \* agent -> signature of the last selection handled
  selectionPopover,      \* agent -> TRUE while the popover (the toolbar) shows
  sendTimers,            \* retries of safeSendMessage waiting for their timer
  \* search episodes (content script, background worker, side panel)
  locationQuery,         \* the search the page's URL names, NoSearch when none
  lastSearchSignature,   \* the content script's last recorded search
  lastSearchByTab,       \* tab -> the background worker's last recorded search
  trajectory,            \* the session's log in chrome.storage (TRAJECTORY_KEY)
  trajectoryIndex,       \* the side panel's copy of the session's log
  bgCalls,               \* the background worker's requests and callbacks under way
  searchCalls,           \* the search episodes posted to the persistence service
  clock,                 \* timestamps handed out so far
  \* AI suggestions for the highlight card (sidepanel.js, handleSelection)
  aiRequests,            \* the /ai/suggestions requests under way
  cardAi,                \* what the card shows of suggestions, loading state, reasoning
  \* search-intent suggestions of the trajectory panel (sidepanel.js)
  searchReasonRequests,  \* ids of the episodes with a request under way (the Map's keys)
  aiSuggested,           \* ids of the episodes whose ai_suggestions are not empty
  intentCalls,           \* the /ai/search-intent requests under way
  intentIssued,          \* /ai/search-intent requests issued so far
  pendingTrajectoryRender, \* a render was asked for while one was running
  \* rendering in the viewer (pdf_viewer.js, renderAllPages)
  viewerEl,              \* the page containers appended to the viewer element
  pageHighlightLayers,   \* page -> the container whose overlay layer the Map holds
  renderRuns             \* the calls of renderAllPages under way

vars == <<highlightRegistry, htmlMarks, pageViewports, pageHighlightData,
          pendingHighlightQueue, currentScale, viewerListening, openTabs, currentSession, activeTab,
          documentsIndex, storedDocuments,
          summary, card, activeHighlightRef, apiCalls, nextHid, inbox,
          nextLocal, windowSelection, pendingSelection, lastSelectionSignature,
          selectionPopover, sendTimers, locationQuery, lastSearchSignature,
          lastSearchByTab, trajectory, trajectoryIndex, bgCalls, searchCalls, clock,
          aiRequests, cardAi, searchReasonRequests, aiSuggested, intentCalls,
          intentIssued, pendingTrajectoryRender, viewerEl, pageHighlightLayers,
          renderRuns>>

pageVars == <<highlightRegistry, htmlMarks>>
viewerVars == <<pageViewports, pageHighlightData, pendingHighlightQueue, currentScale,
                viewerListening>>
panelVars == <<openTabs, currentSession, activeTab, documentsIndex, summary, card,
               activeHighlightRef>>
apiVars == <<apiCalls, nextHid>>
agentVars == <<windowSelection, pendingSelection, lastSelectionSignature,
               selectionPopover, sendTimers>>
searchVars == <<locationQuery, lastSearchSignature, lastSearchByTab, trajectory,
                trajectoryIndex, bgCalls, searchCalls, clock>>
suggestVars == <<aiRequests, cardAi>>
intentVars == <<searchReasonRequests, aiSuggested, intentCalls, intentIssued,
                pendingTrajectoryRender>>
renderVars == <<viewerEl, pageHighlightLayers, renderRuns>>
asyncVars == <<suggestVars, intentVars, renderVars>>

Contexts == {"page", "viewer", "bg", "panel"}

\* sender.tab.id of the two tabs
PageTab == 1
ViewerTab == 2
TabUrl(tab) == IF tab = PageTab THEN PageUrl ELSE ViewerTabUrl

NoViewport == [width |-> 0, height |-> 0]
NoCard == [localId |-> NoId, highlightId |-> NoId, renderHid |-> NoId, url |-> "",
           isPdf |-> FALSE, page |-> 0, rects |-> <<>>, sentiment |-> "",
           saving |-> FALSE]
NoRef == [highlightId |-> NoId, localId |-> NoId]
NoDoc == [document_id |-> NoId, type |-> "", highlights |-> <<>>,
          highlight_order |-> <<>>]
NoUrl == ""

\* The contexts that capture selections: the content script of the flat
\* page and the viewer.
Agents == {"page", "viewer"}
AgentTab(agent) == IF agent = "page" THEN PageTab ELSE ViewerTab
AgentUrl(agent) == TabUrl(AgentTab(agent))

\* window.getSelection(): collapsed or absent, or a passage and the place
\* of the page it lies in.
NoSelection == [place |-> "none", passage |-> <<>>]
NoPending == [signature |-> <<>>, passage |-> <<>>, page |-> 0]
NoSignature == <<>>
NoSearch == [platform |-> "", query |-> ""]
NoLog == [searchEpisodes |-> <<>>, interactions |-> <<>>]
NoCardAi == [suggestions |-> NoId, loading |-> FALSE, reasoning |-> NoId]

\* ------------------------------------------------------------- the channel
\* chrome.runtime.sendMessage hands a message to the onMessage listeners of
\* every other context; only the listeners with a branch for the type react.
Listeners(type) ==
  CASE type \in {"CONTENT_SELECTION", "PDF_SELECTION",
                 "CONTENT_HIGHLIGHT_REMOVE_REQUEST", "SEARCH_QUERY",
                 "SEARCH_INTERACTION"} -> {"bg"}
    [] type \in {"FORWARD_SELECTION", "HTML_HIGHLIGHT_REMOVE_REQUEST",
                 "PDF_REVIEW_SAVED", "SEARCH_RECORDED",
                 "TRAJECTORY_INTERACTION_RECORDED"} -> {"panel"}
    [] type = "PDF_HIGHLIGHT_CREATED" -> {"bg", "viewer"}
    [] type = "PDF_HIGHLIGHT_CANCELLED" -> {"bg", "viewer", "panel"}
    [] type \in {"HTML_HIGHLIGHT_SAVED", "HTML_HIGHLIGHT_SAVE_FAILED",
                 "HTML_HIGHLIGHT_REMOVED", "HTML_HIGHLIGHT_REMOVE_FAILED"} -> {"page"}
    [] OTHER -> {}

\* A context listens while its tab is open (the viewer registers its
\* listener when loadPdf has returned); the background worker and the side
\* panel always do.
Listening(c) ==
  CASE c = "page" -> PageTab \in openTabs
    [] c = "viewer" -> ViewerTab \in openTabs /\ viewerListening
    [] OTHER -> TRUE

\* A channel that hands a broadcast to the listener of its sender as well.
SendAll_ToSender(box, from, msgs, taken) ==
  [c \in Contexts |->
     ((IF c = from THEN box[c] \ taken ELSE box[c])
      \cup {m \in msgs : c \in Listeners(m.type) /\ Listening(c)})]

\* The inboxes after `from` has sent the messages of the set msgs and
\* consumed the message `taken` (a set: empty or one message) of its own inbox.
SendAll(box, from, msgs, taken) ==
  [c \in Contexts |->
     ((IF c = from THEN box[c] \ taken ELSE box[c])
      \cup {m \in msgs : c # from /\ c \in Listeners(m.type) /\ Listening(c)})]

\* Messages and requests under way.
InFlight ==
  Cardinality(inbox["page"]) + Cardinality(inbox["viewer"]) + Cardinality(inbox["bg"])
  + Cardinality(inbox["panel"]) + Cardinality(apiCalls)

\* The annotator makes the next gesture once the traffic has thinned out.
Settled == InFlight < MaxInFlight

\* The summary's editor and the review dialog are opened when nothing is
\* under way.
AtRest == InFlight = 0

\* rect.highlightId || rect.highlight_id || null, and likewise for localId
Field(rec, f) == IF f \in DOMAIN rec THEN rec[f] ELSE NoId

\* ------------------------------------------------------------ safeSendMessage
\* What an attempt of chrome.runtime.sendMessage comes to: the listeners
\* receive the message; the callback reports "Extension context
\* invalidated"; the callback reports another error; or the runtime is gone
\* (the attempt is skipped, or sendMessage throws and the error is caught).
SendOutcomes == {"delivered", "invalidated", "rejected", "unavailable"}

\* A sender that schedules a retry after any failed attempt.
safeSendMessage_RetryAnyError(timers, from, message, retries, configured, attempts, outcome) ==
  IF retries > 0 /\ outcome # "delivered"
  THEN timers \cup {[message |-> message, from |-> from, retries |-> retries - 1,
                     configured |-> configured, attempts |-> attempts,
                     error |-> outcome]}
  ELSE timers

\* safeSendMessage(message, retries): the retry timers after an attempt, the
\* attempts-th of a message first sent with `configured` retries.
safeSendMessage(timers, from, message, retries, configured, attempts, outcome) ==
  IF retries > 0 /\ outcome = "invalidated"
  THEN timers \cup {[message |-> message, from |-> from, retries |-> retries - 1,
                     configured |-> configured, attempts |-> attempts,
                     error |-> outcome]}
  ELSE timers

\* The inboxes after the attempt.
Attempted(box, from, message, outcome) ==
  IF outcome = "delivered" THEN SendAll(box, from, {message}, {}) ELSE box

\* setTimeout(() => safeSendMessage(message, retries - 1), 200) fires.
SafeSendRetry(timer, outcome) ==
  /\ timer \in sendTimers
  /\ sendTimers' = safeSendMessage(sendTimers \ {timer}, timer.from, timer.message,
                                   timer.retries, timer.configured,
                                   timer.attempts + 1, outcome)
  /\ inbox' = Attempted(inbox, timer.from, timer.message, outcome)
  /\ UNCHANGED <<asyncVars, windowSelection, pendingSelection, lastSelectionSignature,
                 selectionPopover, searchVars, storedDocuments, pageVars, viewerVars,
                 panelVars, apiVars, nextLocal>>

\* ------------------------------------------------------------ pending selection
\* clearPendingSelection() of the content script
clearPendingSelection ==
  /\ pendingSelection' = [pendingSelection EXCEPT !["page"] = NoPending]
  /\ selectionPopover' = [selectionPopover EXCEPT !["page"] = FALSE]
  /\ lastSelectionSignature' = [lastSelectionSignature EXCEPT !["page"] = NoSignature]

\* resetSelectionSignature(event) of the viewer, for an event outside the
\* toolbar
resetSelectionSignature ==
  /\ lastSelectionSignature' = [lastSelectionSignature EXCEPT !["viewer"] = NoSignature]
  /\ pendingSelection' = [pendingSelection EXCEPT !["viewer"] = NoPending]
  /\ selectionPopover' = [selectionPopover EXCEPT !["viewer"] = FALSE]

\* ------------------------------------------------------------------ viewer
\* addOverlayHighlights(page, rects): the marks and the queue afterwards.
addOverlayHighlights(data, queue, viewports, page, rects) ==
  IF Len(rects) = 0 THEN [data |-> data, queue |-> queue]
  ELSE IF viewports[page] = NoViewport
  THEN [data |-> data, queue |-> [queue EXCEPT ![page] = @ \o rects]]
  ELSE [data |-> [data EXCEPT ![page] = MergedMarks(@, rects, viewports[page])],
        queue |-> queue]

\* A match that looks at the localId and the fingerprint only.
marksMatch_NoHighlightId(candidate, match) ==
  \/ (match.localId # NoId /\ candidate.localId = match.localId)
  \/ (match.highlightId = NoId /\ match.localId = NoId
      /\ match.fingerprint # NoFingerprint
      /\ candidate.fingerprint = match.fingerprint)

\* A match that takes the fingerprint whatever else the request carries.
marksMatch_AnyFingerprint(candidate, match) ==
  \/ (match.highlightId # NoId /\ candidate.highlightId = match.highlightId)
  \/ (match.localId # NoId /\ candidate.localId = match.localId)
  \/ (match.fingerprint # NoFingerprint /\ candidate.fingerprint = match.fingerprint)

marksMatch(candidate, match) ==
  IF match.highlightId # NoId /\ candidate.highlightId = match.highlightId THEN TRUE
  ELSE IF match.localId # NoId /\ candidate.localId = match.localId THEN TRUE
  ELSE match.highlightId = NoId /\ match.localId = NoId
       /\ match.fingerprint # NoFingerprint
       /\ candidate.fingerprint = match.fingerprint

RECURSIVE SelectSeq2(_, _, _)
SelectSeq2(seq, match, keep) ==
  IF Len(seq) = 0 THEN <<>>
  ELSE (IF marksMatch(Head(seq), match) = keep THEN <<Head(seq)>> ELSE <<>>)
       \o SelectSeq2(Tail(seq), match, keep)

\* removeMarksMatching(page, match): the page's marks that stay.
removeMarksMatching(marks, match) == SelectSeq2(marks, match, FALSE)

\* baseViewport.clone({ scale: currentScale })
ViewportAt(scale) ==
  [width |-> (BaseViewport.width * scale) \div 100,
   height |-> (BaseViewport.height * scale) \div 100]

\* The client rect, relative to the page, of a passage at a zoom: pixels
\* formatted with toFixed(2).
ClientRect(rect, scale) ==
  [x1 |-> ToFixed2((rect.x1 * scale) \div 100), y1 |-> ToFixed2((rect.y1 * scale) \div 100),
   x2 |-> ToFixed2((rect.x2 * scale) \div 100), y2 |-> ToFixed2((rect.y2 * scale) \div 100)]

\* renderAllPages reaching page p: the viewport is set and the queue flushed.
RenderPage(p) ==
  /\ ViewerTab \in openTabs
  /\ pageViewports[p] = NoViewport
  /\ ~viewerListening
  /\ LET viewports == [pageViewports EXCEPT ![p] = ViewportAt(currentScale)]
         flushed == IF Len(pendingHighlightQueue[p]) = 0
                    THEN [data |-> pageHighlightData, queue |-> pendingHighlightQueue]
                    ELSE addOverlayHighlights(pageHighlightData,
                           [pendingHighlightQueue EXCEPT ![p] = <<>>], viewports, p,
                           pendingHighlightQueue[p])
     IN /\ pageViewports' = viewports
        /\ pageHighlightData' = flushed.data
        /\ pendingHighlightQueue' = flushed.queue
        /\ viewerListening' = (viewerListening
                               \/ \A q \in Pages : viewports[q] # NoViewport)
  /\ UNCHANGED <<asyncVars, agentVars, searchVars, storedDocuments, pageVars, currentScale, panelVars, apiVars, inbox, nextLocal>>

\* handleSelection followed by commitPendingSelection in the viewer.
PdfCommit(p, passage, sentiment) ==
  /\ Settled
  /\ nextLocal < MaxLocal
  /\ activeTab = ViewerTabUrl
  /\ pageViewports[p] # NoViewport
  /\ LET localId == nextLocal + 1
         rects == [i \in 1..Len(passage) |-> ClientRect(passage[i], currentScale)]
         overlayColor == sentimentToOverlayColor(sentiment)
         overlayRects == [i \in 1..Len(rects) |->
                            Spread(rects[i], [color |-> overlayColor, localId |-> localId])]
         added == addOverlayHighlights(pageHighlightData, pendingHighlightQueue,
                                       pageViewports, p,
                                       [i \in 1..Len(rects) |->
                                          Spread(overlayRects[i], [highlightId |-> NoId])])
         msg == [type |-> "PDF_SELECTION", tab |-> ViewerTab, local_id |-> localId,
                 url |-> PdfUrl,
                 docType |-> "pdf", page |-> p, rects |-> rects, sentiment |-> sentiment]
     IN /\ nextLocal' = localId
        /\ pageHighlightData' = added.data
        /\ pendingHighlightQueue' = added.queue
        /\ inbox' = SendAll(inbox, "viewer", {msg}, {})
  /\ UNCHANGED <<asyncVars, agentVars, searchVars, storedDocuments, pageVars, pageViewports, currentScale, viewerListening, panelVars,
                 apiVars>>

\* requestOverlayRemoval(page, markIndex): the annotator removes a mark.
RequestOverlayRemoval(p, markIndex) ==
  /\ Settled
  /\ activeTab = ViewerTabUrl
  /\ markIndex \in 1..Len(pageHighlightData[p])
  /\ LET mark == pageHighlightData[p][markIndex]
         match == [highlightId |-> mark.highlightId, localId |-> mark.localId,
                   fingerprint |-> mark.fingerprint]
         identifiers == [tab |-> ViewerTab, highlight_id |-> mark.highlightId,
                         local_id |-> mark.localId,
                         fingerprint |-> mark.fingerprint, url |-> PdfUrl, page |-> p]
         msg == IF mark.highlightId # NoId
                THEN Spread(identifiers, [type |-> "CONTENT_HIGHLIGHT_REMOVE_REQUEST",
                                          document_url |-> NoUrl, is_pdf |-> FALSE])
                ELSE Spread(identifiers, [type |-> "PDF_HIGHLIGHT_CANCELLED",
                                          relayed |-> FALSE])
     IN /\ pageHighlightData' =
             [pageHighlightData EXCEPT ![p] = removeMarksMatching(@, match)]
        /\ inbox' = SendAll(inbox, "viewer", {msg}, {})
  /\ UNCHANGED <<asyncVars, agentVars, searchVars, storedDocuments, pageVars, pageViewports, pendingHighlightQueue, currentScale,
                 viewerListening, panelVars, apiVars, nextLocal>>

\* The rect payloads the PDF_HIGHLIGHT_CREATED branch builds from a message.
CreatedRects(m) ==
  [i \in 1..Len(m.rects) |->
     Spread(m.rects[i],
       [highlightId |-> IF m.highlight_id # NoId THEN m.highlight_id
                        ELSE Field(m.rects[i], "highlightId"),
        localId |-> IF m.local_id # NoId THEN m.local_id
                    ELSE Field(m.rects[i], "localId"),
        color |-> resolveOverlayColor(m.rects[i].color)])]

\* What the PDF_HIGHLIGHT_CREATED branch makes of the marks and the queue.
CreatedOverlay(data, queue, viewports, m) ==
  IF m.url # PdfUrl \/ m.page \notin Pages THEN [data |-> data, queue |-> queue]
  ELSE addOverlayHighlights(data, queue, viewports, m.page, CreatedRects(m))

\* onMessage PDF_HIGHLIGHT_CREATED
ViewerCreated(m) ==
  /\ m \in inbox["viewer"] /\ m.type = "PDF_HIGHLIGHT_CREATED"
  /\ LET added == CreatedOverlay(pageHighlightData, pendingHighlightQueue,
                                 pageViewports, m)
     IN /\ pageHighlightData' = added.data
        /\ pendingHighlightQueue' = added.queue
  /\ inbox' = SendAll(inbox, "viewer", {}, {m})
  /\ UNCHANGED <<asyncVars, agentVars, searchVars, storedDocuments, pageVars, pageViewports, currentScale, viewerListening, panelVars,
                 apiVars, nextLocal>>

\* removeMarkByIdentifiers applied to the payload of PDF_HIGHLIGHT_CANCELLED
CancelledOverlay(data, m) ==
  IF m.url # PdfUrl \/ m.page \notin Pages THEN data
  ELSE [data EXCEPT ![m.page] =
          removeMarksMatching(@, [highlightId |-> m.highlight_id,
                                  localId |-> m.local_id,
                                  fingerprint |-> m.fingerprint])]

\* onMessage PDF_HIGHLIGHT_CANCELLED
ViewerCancelled(m) ==
  /\ m \in inbox["viewer"] /\ m.type = "PDF_HIGHLIGHT_CANCELLED"
  /\ pageHighlightData' = CancelledOverlay(pageHighlightData, m)
  /\ inbox' = SendAll(inbox, "viewer", {}, {m})
  /\ UNCHANGED <<asyncVars, agentVars, searchVars, storedDocuments, pageVars, pageViewports, pendingHighlightQueue, currentScale,
                 viewerListening, panelVars, apiVars, nextLocal>>

\* loadPdf rejects while renderAllPages fetches a page (currentPdf is set,
\* the page has no viewport): the catch block reports it and the script goes
\* on to register its onMessage listener.
LoadFailed ==
  /\ ViewerTab \in openTabs
  /\ ~viewerListening
  /\ \E p \in Pages : pageViewports[p] = NoViewport
  /\ viewerListening' = TRUE
  /\ UNCHANGED <<asyncVars, agentVars, searchVars, storedDocuments, pageVars, pageViewports, pageHighlightData, pendingHighlightQueue,
                 currentScale, panelVars, apiVars, inbox, nextLocal>>

Min(a, b) == IF a < b THEN a ELSE b
Max(a, b) == IF a > b THEN a ELSE b

\* A zoom that also stores the marks anew, relative to the clamped scale.
Rescaled_Renormalised(viewports, data, queue, current, scale) ==
  LET clamped == Max(50, Min(scale, 400))
      rendered == [p \in Pages |-> ViewportAt(clamped)]
  IN [scale |-> clamped,
      viewports |-> rendered,
      data |-> [p \in Pages |->
                  [i \in 1..Len(data[p]) |->
                     Spread(data[p][i],
                            normaliseRect([x1 |-> data[p][i].fingerprint[1],
                                           y1 |-> data[p][i].fingerprint[2],
                                           x2 |-> data[p][i].fingerprint[3],
                                           y2 |-> data[p][i].fingerprint[4]],
                                          rendered[p]))]],
      queue |-> queue]

\* setScale(scale) with the renderAllPages it starts: the scale, the
\* viewports, the marks and the queues afterwards.
Rescaled(viewports, data, queue, current, scale) ==
  LET clamped == Max(50, Min(scale, 400))
  IN IF Abs(clamped - current) < 1
     THEN [scale |-> current, viewports |-> viewports, data |-> data, queue |-> queue]
     ELSE LET rendered == [p \in Pages |-> ViewportAt(clamped)]
          IN [scale |-> clamped,
              viewports |-> rendered,
              data |-> [p \in Pages |->
                          IF Len(queue[p]) = 0 THEN data[p]
                          ELSE MergedMarks(data[p], queue[p], rendered[p])],
              queue |-> [p \in Pages |-> <<>>]]

\* The zoom controls and the resize handler: setScale(scale), once the PDF
\* is loaded.
SetScale(scale) ==
  /\ AtRest
  /\ ViewerTab \in openTabs
  /\ viewerListening
  /\ LET zoomed == Rescaled(pageViewports, pageHighlightData, pendingHighlightQueue,
                            currentScale, scale)
     IN /\ zoomed.scale # currentScale
        /\ currentScale' = zoomed.scale
        /\ pageViewports' = zoomed.viewports
        /\ pageHighlightData' = zoomed.data
        /\ pendingHighlightQueue' = zoomed.queue
  /\ UNCHANGED <<asyncVars, agentVars, searchVars, storedDocuments, pageVars, viewerListening, panelVars, apiVars, inbox, nextLocal>>

\* mark.x1 * viewport.width and the like, as reduced fractions of pixels.
Times(q, w) == Quot(q.n * w, q.d)
Minus(p, q) == Quot(p.n * q.d - q.n * p.d, p.d * q.d)
AtLeast(q, least) == IF q.n < least * q.d THEN [n |-> least, d |-> 1] ELSE q

\* renderOverlayForPage: the boxes painted for the marks of a page.
OverlayBoxes(marks, viewport) ==
  IF viewport = NoViewport THEN <<>>
  ELSE [i \in 1..Len(marks) |->
          [left |-> Times(marks[i].x1, viewport.width),
           top |-> Times(marks[i].y1, viewport.height),
           width |-> AtLeast(Times(Minus(marks[i].x2, marks[i].x1), viewport.width), 2000),
           height |-> AtLeast(Times(Minus(marks[i].y2, marks[i].y1), viewport.height),
                              2000)]]

\* The viewer page is reloaded: beforeunload clears its maps, the script
\* starts afresh, and messages still addressed to the old page are gone.
ViewerReload ==
  /\ AtRest
  /\ ViewerTab \in openTabs
  /\ viewerListening
  /\ pageViewports' = [p \in Pages |-> NoViewport]
  /\ pageHighlightData' = [p \in Pages |-> <<>>]
  /\ pendingHighlightQueue' = [p \in Pages |-> <<>>]
  /\ currentScale' = 100
  /\ viewerListening' = FALSE
  /\ inbox' = [inbox EXCEPT !["viewer"] = {}]
  /\ windowSelection' = [windowSelection EXCEPT !["viewer"] = NoSelection]
  /\ resetSelectionSignature
  /\ sendTimers' = {timer \in sendTimers : timer.from # "viewer"}
  /\ UNCHANGED <<asyncVars, searchVars, storedDocuments, pageVars, panelVars, apiVars, nextLocal>>

\* -------------------------------------------------------------------- page
\* Map.prototype.delete and Map.prototype.set on the registry
RegistryDelete(registry, localId) ==
  [l \in (DOMAIN registry) \ {localId} |-> registry[l]]

RegistrySet(registry, localId, entry) ==
  [l \in (DOMAIN registry) \cup {localId} |-> IF l = localId THEN entry ELSE registry[l]]

\* The first registry key whose entry carries highlightId (NoId when none).
RegistryKeyOf(registry, highlightId) ==
  LET keys == {l \in DOMAIN registry : registry[l].highlightId = highlightId}
  IN IF highlightId = NoId \/ keys = {} THEN NoId
     ELSE CHOOSE l \in keys : \A k \in keys : l <= k

\* unwrapHighlightsByIdentifiers: the spans left in the document.
unwrapHighlightsByIdentifiers(spans, localId, highlightId) ==
  {s \in spans : ~ \/ (localId # NoId /\ s.localId = localId)
                   \/ (highlightId # NoId /\ s.highlightId = highlightId)}

\* handleSelection followed by commitPendingSelection on the flat page.
HtmlCommit ==
  /\ Settled
  /\ nextLocal < MaxLocal
  /\ activeTab = PageUrl
  /\ LET localId == nextLocal + 1
         msg == [type |-> "CONTENT_SELECTION", tab |-> PageTab, local_id |-> localId,
                 url |-> PageUrl,
                 docType |-> "html", page |-> 0, rects |-> <<>>,
                 sentiment |-> "thumbsup"]
     IN /\ nextLocal' = localId
        /\ htmlMarks' = htmlMarks \cup {[localId |-> localId, highlightId |-> NoId]}
        /\ highlightRegistry' =
             RegistrySet(highlightRegistry, localId, [highlightId |-> NoId])
        /\ inbox' = SendAll(inbox, "page", {msg}, {})
  /\ UNCHANGED <<asyncVars, agentVars, searchVars, storedDocuments, viewerVars, panelVars, apiVars>>

\* requestHighlightRemoval(target): the annotator removes a span of the page.
HtmlRequestRemoval(target) ==
  /\ Settled
  /\ activeTab = PageUrl
  /\ target \in htmlMarks
  /\ LET localId == target.localId
         highlightId == target.highlightId
         msg == [type |-> "CONTENT_HIGHLIGHT_REMOVE_REQUEST", tab |-> PageTab,
                 local_id |-> localId,
                 highlight_id |-> highlightId, document_url |-> PageUrl,
                 is_pdf |-> FALSE, page |-> 0, fingerprint |-> NoFingerprint,
                 url |-> NoUrl]
     IN /\ htmlMarks' = htmlMarks \ {target}
        /\ highlightRegistry' = RegistryDelete(highlightRegistry, localId)
        /\ inbox' = SendAll(inbox, "page", {msg}, {})
  /\ UNCHANGED <<asyncVars, agentVars, searchVars, storedDocuments, viewerVars, panelVars, apiVars, nextLocal>>

\* What the HTML_HIGHLIGHT_SAVED branch makes of the registry and the spans.
SavedRegistry(registry, m) ==
  IF m.local_id = NoId \/ m.local_id \notin DOMAIN registry THEN registry
  ELSE RegistrySet(registry, m.local_id, [highlightId |-> m.highlight_id])

SavedMarks(registry, spans, m) ==
  IF m.local_id = NoId \/ m.local_id \notin DOMAIN registry THEN spans
  ELSE {IF s.localId = m.local_id THEN [s EXCEPT !.highlightId = m.highlight_id] ELSE s
        : s \in spans}

\* onMessage HTML_HIGHLIGHT_SAVED
PageSaved(m) ==
  /\ m \in inbox["page"] /\ m.type = "HTML_HIGHLIGHT_SAVED"
  /\ highlightRegistry' = SavedRegistry(highlightRegistry, m)
  /\ htmlMarks' = SavedMarks(highlightRegistry, htmlMarks, m)
  /\ inbox' = SendAll(inbox, "page", {}, {m})
  /\ UNCHANGED <<asyncVars, agentVars, searchVars, storedDocuments, viewerVars, panelVars, apiVars, nextLocal>>

\* What the HTML_HIGHLIGHT_SAVE_FAILED branch leaves of the spans.
SaveFailedMarks(registry, spans, m) ==
  IF m.local_id \in DOMAIN registry THEN {s \in spans : s.localId # m.local_id}
  ELSE spans

\* onMessage HTML_HIGHLIGHT_SAVE_FAILED
PageSaveFailed(m) ==
  /\ m \in inbox["page"] /\ m.type = "HTML_HIGHLIGHT_SAVE_FAILED"
  /\ htmlMarks' = SaveFailedMarks(highlightRegistry, htmlMarks, m)
  /\ highlightRegistry' = RegistryDelete(highlightRegistry, m.local_id)
  /\ inbox' = SendAll(inbox, "page", {}, {m})
  /\ UNCHANGED <<asyncVars, agentVars, searchVars, storedDocuments, viewerVars, panelVars, apiVars, nextLocal>>

\* The registry key the HTML_HIGHLIGHT_REMOVED branch resolves.
ResolvedLocalId(registry, m) ==
  IF m.local_id # NoId /\ m.local_id \in DOMAIN registry THEN m.local_id
  ELSE IF RegistryKeyOf(registry, m.highlight_id) # NoId
  THEN RegistryKeyOf(registry, m.highlight_id)
  ELSE m.local_id

\* What the HTML_HIGHLIGHT_REMOVED branch leaves of the spans.
RemovedMarks(registry, spans, m) ==
  LET resolvedLocalId == ResolvedLocalId(registry, m)
      attached == IF resolvedLocalId \in DOMAIN registry
                  THEN {s \in spans : s.localId # resolvedLocalId}
                  ELSE spans
  IN unwrapHighlightsByIdentifiers(attached, resolvedLocalId, m.highlight_id)

\* onMessage HTML_HIGHLIGHT_REMOVED
PageRemoved(m) ==
  /\ m \in inbox["page"] /\ m.type = "HTML_HIGHLIGHT_REMOVED"
  /\ htmlMarks' = RemovedMarks(highlightRegistry, htmlMarks, m)
  /\ highlightRegistry' =
       RegistryDelete(highlightRegistry, ResolvedLocalId(highlightRegistry, m))
  /\ inbox' = SendAll(inbox, "page", {}, {m})
  /\ UNCHANGED <<asyncVars, agentVars, searchVars, storedDocuments, viewerVars, panelVars, apiVars, nextLocal>>

\* onMessage HTML_HIGHLIGHT_REMOVE_FAILED: a debug log, nothing else.
PageRemoveFailed(m) ==
  /\ m \in inbox["page"] /\ m.type = "HTML_HIGHLIGHT_REMOVE_FAILED"
  /\ inbox' = SendAll(inbox, "page", {}, {m})
  /\ UNCHANGED <<asyncVars, agentVars, searchVars, storedDocuments, pageVars, viewerVars, panelVars, apiVars, nextLocal>>

\* ---------------------------------------------------------------------- bg
\* The highlight lifecycle messages the background worker sends on.
RelayTypes ==
  {"CONTENT_SELECTION", "PDF_SELECTION", "CONTENT_HIGHLIGHT_REMOVE_REQUEST",
   "PDF_HIGHLIGHT_CREATED", "PDF_HIGHLIGHT_CANCELLED"}

\* A worker that resolves the mark's identifier before it sends the message on.
Relayed_ResolvingIds(m) ==
  Spread(m, [type |-> IF m.type \in {"CONTENT_SELECTION", "PDF_SELECTION"}
                      THEN "FORWARD_SELECTION"
                      ELSE IF m.type = "CONTENT_HIGHLIGHT_REMOVE_REQUEST"
                      THEN "HTML_HIGHLIGHT_REMOVE_REQUEST" ELSE m.type,
             tabId |-> m.tab, local_id |-> NoId])

\* The message the background worker sends on for a message it receives.
Relayed(m) ==
  IF m.type \in {"CONTENT_SELECTION", "PDF_SELECTION"}
  THEN Spread(m, [type |-> "FORWARD_SELECTION", tabId |-> m.tab])
  ELSE IF m.type = "CONTENT_HIGHLIGHT_REMOVE_REQUEST"
  THEN Spread(m, [type |-> "HTML_HIGHLIGHT_REMOVE_REQUEST", tabId |-> m.tab])
  ELSE Spread(m, [relayed |-> TRUE])

\* onMessage of the background service worker
BgRelay(m) ==
  /\ m \in inbox["bg"] /\ m.type \in RelayTypes
  /\ inbox' = SendAll(inbox, "bg", {Relayed(m)}, {m})
  /\ UNCHANGED <<asyncVars, agentVars, searchVars, storedDocuments, pageVars, viewerVars, panelVars, apiVars, nextLocal>>

\* ------------------------------------------------------------------- panel
\* currentTabInfo.url as updatePdfButtonState leaves it
currentTabInfo == IF currentSession THEN activeTab ELSE NoUrl

DocumentIdOf(url) == IF url = PageUrl THEN 1 ELSE 2

RECURSIVE FilterSeq(_, _)
\* Array.prototype.filter keeping the elements that are not in the set drop
FilterSeq(seq, drop) ==
  IF Len(seq) = 0 THEN <<>>
  ELSE (IF Head(seq) \in drop THEN <<>> ELSE <<Head(seq)>>) \o FilterSeq(Tail(seq), drop)

CachedIds(doc) == {doc.highlights[i].highlight_id : i \in 1..Len(doc.highlights)}

\* docEntry.highlights.filter((h) => h.highlight_id !== highlightId)
WithoutHighlight(highlights, highlightId) ==
  FilterSeq(highlights,
            {highlights[i] : i \in {j \in 1..Len(highlights) :
                                      highlights[j].highlight_id = highlightId}})

pruneHighlightFromDocuments(docs, documentUrl, highlightId) ==
  IF ~currentSession \/ documentUrl \notin DocUrls THEN docs
  ELSE IF docs[documentUrl] = NoDoc \/ highlightId = NoId THEN docs
  ELSE [docs EXCEPT ![documentUrl] =
          [@ EXCEPT !.highlights = WithoutHighlight(@, highlightId),
                    !.highlight_order = FilterSeq(@, {highlightId})]]

\* addedIndex values (doc.orderCounter++) are only ever compared with each
\* other: the entries of a document keep their order of insertion, counted
\* from 1 without gaps.
Compacted(entries) ==
  {[item EXCEPT !.addedIndex =
      Cardinality({other \in entries :
                     other.url = item.url /\ other.addedIndex <= item.addedIndex})] :
   item \in entries}

\* pruneHighlightFromDocuments gets as far as its storage.set
storesPruned(docs, documentUrl) ==
  currentSession /\ documentUrl \in DocUrls /\ docs[documentUrl] # NoDoc

removeHighlightEntryById(entries, highlightId, localId) ==
  Compacted({item \in entries :
     ~ \/ (highlightId # NoId /\ item.highlightId = highlightId)
       \/ (localId # NoId /\ item.localId # NoId /\ item.localId = localId)})

removeHighlightFromSummary(entries, url, page, fingerprint) ==
  Compacted({item \in entries :
     ~ /\ item.url = url
       /\ IF fingerprint # NoFingerprint /\ item.fingerprint # NoFingerprint
          THEN item.fingerprint = fingerprint
          ELSE page # 0 /\ item.page = page})

\* Array.prototype.indexOf + 1: the rank an order gives an id, 0 for none.
RankIn(order, highlightId) ==
  LET hits == {i \in 1..Len(order) : order[i] = highlightId}
  IN IF hits = {} THEN 0 ELSE CHOOSE i \in hits : \A j \in hits : i <= j

\* addHighlightToSummary -> highlightSummary.add (upsertHighlight, entries
\* keyed by id): the rank comes from the document's saved order, a known
\* entry keeps its addedIndex and a new one gets the next.
addHighlightToSummary(entries, entry, order) ==
  LET known == {item \in entries : item.highlightId = entry.highlightId}
      ofDocument == {item \in entries : item.url = entry.url}
      addedIndex == IF known # {} THEN (CHOOSE item \in known : TRUE).addedIndex
                    ELSE Cardinality(ofDocument) + 1
  IN (entries \ known)
     \cup {Spread(entry, [rank |-> RankIn(order, entry.highlightId),
                          addedIndex |-> addedIndex])}

\* highlightSummary.updateDocumentReview: the highlights the order names get
\* their rank; the others keep the rank they had.
updateDocumentReview(entries, url, order) ==
  {IF item.url = url /\ RankIn(order, item.highlightId) > 0
   THEN [item EXCEPT !.rank = RankIn(order, item.highlightId)]
   ELSE item : item \in entries}

\* sortHighlights: by rank, the unranked last, then by addedIndex.
SortsBefore(a, b) ==
  LET rankA == IF a.rank > 0 THEN a.rank ELSE MaxHid + 2
      rankB == IF b.rank > 0 THEN b.rank ELSE MaxHid + 2
  IN IF rankA # rankB THEN rankA < rankB ELSE a.addedIndex < b.addedIndex

\* The highlights of a document as the summary lists them.
sortHighlights(entries, url) ==
  LET ofDocument == {item \in entries : item.url = url}
  IN [i \in 1..Cardinality(ofDocument) |->
        CHOOSE item \in ofDocument :
          Cardinality({other \in ofDocument : SortsBefore(other, item)}) = i - 1]

\* maybeClearActiveHighlight({highlightId, localId}): TRUE when the card goes
maybeClearActiveHighlight(ref, highlightId, localId) ==
  /\ ref # NoRef
  /\ \/ (highlightId # NoId /\ ref.highlightId = highlightId)
     \/ (highlightId = NoId /\ localId # NoId /\ ref.localId = localId)

\* onMessage FORWARD_SELECTION -> handleSelection; ok tells whether
\* ensureDocument succeeded.
PanelForwardSelection(m, ok) ==
  /\ m \in inbox["panel"] /\ m.type = "FORWARD_SELECTION"
  /\ IF currentSession /\ ok
     THEN /\ documentsIndex' =
               IF documentsIndex[m.url] = NoDoc
               THEN [documentsIndex EXCEPT ![m.url] =
                       [document_id |-> DocumentIdOf(m.url), type |-> m.docType,
                        highlights |-> <<>>, highlight_order |-> <<>>]]
               ELSE documentsIndex
          /\ card' = [localId |-> m.local_id, highlightId |-> NoId, renderHid |-> NoId,
                      url |-> m.url, isPdf |-> (m.docType = "pdf"), page |-> m.page,
                      rects |-> m.rects, sentiment |-> m.sentiment, saving |-> FALSE]
          /\ activeHighlightRef' = [highlightId |-> NoId, localId |-> m.local_id]
          /\ storedDocuments' = documentsIndex'
     ELSE UNCHANGED <<documentsIndex, storedDocuments, card, activeHighlightRef>>
  /\ inbox' = SendAll(inbox, "panel", {}, {m})
  /\ UNCHANGED <<asyncVars, agentVars, searchVars, pageVars, viewerVars, openTabs, currentSession, activeTab, summary, apiVars,
                 nextLocal>>

\* The card renderHighlightCard shows for a forwarded selection.
SelectionCard(m) ==
  [localId |-> m.local_id, highlightId |-> NoId, renderHid |-> NoId,
   url |-> m.url, isPdf |-> (m.docType = "pdf"), page |-> m.page,
   rects |-> m.rects, sentiment |-> m.sentiment, saving |-> FALSE]

\* onMessage FORWARD_SELECTION -> handleSelection, as far as ensureDocument
\* goes without waiting for the service: a cached document is returned at
\* once and the card is shown; otherwise the create call is issued, with
\* the session's documents as they are now (sessionDocs).
PanelSelectionArrived(m) ==
  /\ m \in inbox["panel"] /\ m.type = "FORWARD_SELECTION"
  /\ inbox' = SendAll(inbox, "panel", {}, {m})
  /\ IF ~currentSession
     THEN UNCHANGED <<documentsIndex, storedDocuments, card, activeHighlightRef, apiCalls>>
     ELSE IF documentsIndex[m.url] # NoDoc
     THEN /\ storedDocuments' = documentsIndex
          /\ card' = SelectionCard(m)
          /\ activeHighlightRef' = [highlightId |-> NoId, localId |-> m.local_id]
          /\ UNCHANGED <<documentsIndex, apiCalls>>
     ELSE /\ apiCalls' = apiCalls \cup
               {[op |-> "DOCUMENT", highlightId |-> NoId, localId |-> m.local_id,
                 url |-> m.url, isPdf |-> (m.docType = "pdf"), page |-> m.page,
                 rects |-> m.rects, sentiment |-> m.sentiment,
                 fingerprint |-> fingerprintFromSelector(m.rects), tabId |-> NoId,
                 docType |-> m.docType, sessionDocs |-> documentsIndex]}
          /\ UNCHANGED <<documentsIndex, storedDocuments, card, activeHighlightRef>>
  /\ UNCHANGED <<asyncVars, agentVars, searchVars, pageVars, viewerVars, openTabs, currentSession, activeTab, summary,
                 nextHid, nextLocal>>

\* ensureDocument continues after the create call settles (ok: resolved), and
\* handleSelection after it: the entry is written over sessionDocs, stored,
\* and the card is shown.
EnsureDocumentSettled(call, ok) ==
  /\ call \in apiCalls /\ call.op = "DOCUMENT"
  /\ apiCalls' = apiCalls \ {call}
  /\ IF ok
     THEN /\ documentsIndex' =
               [call.sessionDocs EXCEPT ![call.url] =
                  [document_id |-> DocumentIdOf(call.url), type |-> call.docType,
                   highlights |-> <<>>, highlight_order |-> <<>>]]
          /\ storedDocuments' = documentsIndex'
          /\ card' = [localId |-> call.localId, highlightId |-> NoId, renderHid |-> NoId,
                      url |-> call.url, isPdf |-> call.isPdf, page |-> call.page,
                      rects |-> call.rects, sentiment |-> call.sentiment,
                      saving |-> FALSE]
          /\ activeHighlightRef' = [highlightId |-> NoId, localId |-> call.localId]
     ELSE UNCHANGED <<documentsIndex, storedDocuments, card, activeHighlightRef>>
  /\ UNCHANGED <<asyncVars, agentVars, searchVars, pageVars, viewerVars, openTabs, currentSession, activeTab, summary,
                 nextHid, inbox, nextLocal>>

\* openHighlightEditor(entry): a saved highlight of the summary is edited.
PanelEdit(entry) ==
  /\ AtRest
  /\ currentSession
  /\ entry \in summary
  /\ documentsIndex[entry.url] # NoDoc
  /\ card' = [localId |-> NoId, highlightId |-> entry.highlightId,
              renderHid |-> entry.highlightId, url |-> entry.url,
              isPdf |-> entry.isPdf, page |-> entry.page, rects |-> entry.rects,
              sentiment |-> entry.sentiment, saving |-> FALSE]
  /\ activeHighlightRef' = [highlightId |-> entry.highlightId, localId |-> NoId]
  /\ UNCHANGED <<asyncVars, agentVars, searchVars, storedDocuments, pageVars, viewerVars, openTabs, currentSession, activeTab, documentsIndex,
                 summary, apiVars, inbox, nextLocal>>

\* The Save button of the card: PATCH when the card was rendered with a
\* highlightId, POST otherwise.
PanelSaveClick ==
  /\ Settled
  /\ card # NoCard /\ ~card.saving
  /\ Cardinality(apiCalls) < MaxCalls
  /\ card' = [card EXCEPT !.saving = TRUE]
  /\ apiCalls' = apiCalls \cup
       {[op |-> IF card.renderHid # NoId THEN "PATCH" ELSE "POST",
         highlightId |-> card.renderHid, localId |-> card.localId, url |-> card.url,
         isPdf |-> card.isPdf, page |-> card.page, rects |-> card.rects,
         sentiment |-> card.sentiment,
         fingerprint |-> fingerprintFromSelector(card.rects), tabId |-> NoId]}
  /\ UNCHANGED <<asyncVars, agentVars, searchVars, storedDocuments, pageVars, viewerVars, openTabs, currentSession, activeTab, documentsIndex,
                 summary, activeHighlightRef, nextHid, inbox, nextLocal>>

\* The card whose Save handler issued the call is still the one shown.
CardOf(call) ==
  card # NoCard /\ card.localId = call.localId /\ card.renderHid = call.highlightId

\* The Save handler continues after api.request settles (ok: resolved).
ApiRespondSave(call, ok) ==
  /\ call \in apiCalls /\ call.op \in {"POST", "PATCH"}
  /\ ok /\ call.op = "POST" => nextHid < MaxHid
  /\ apiCalls' = apiCalls \ {call}
  /\ UNCHANGED <<asyncVars, agentVars, searchVars, pageVars, viewerVars, openTabs, currentSession, activeTab, nextLocal>>
  /\ IF ok
     THEN LET highlight_id == IF call.op = "PATCH" THEN call.highlightId ELSE nextHid + 1
              overlayColor == sentimentToOverlayColor(call.sentiment)
              rectPayloads == [i \in 1..Len(call.rects) |->
                                 Spread(call.rects[i],
                                        [highlightId |-> highlight_id,
                                         localId |-> call.localId,
                                         color |-> overlayColor])]
              created == [type |-> "PDF_HIGHLIGHT_CREATED", url |-> call.url,
                          page |-> call.page, rects |-> rectPayloads,
                          highlight_id |-> highlight_id, local_id |-> call.localId,
                          relayed |-> FALSE]
              saved == [type |-> "HTML_HIGHLIGHT_SAVED", local_id |-> call.localId,
                        highlight_id |-> highlight_id, document_url |-> call.url]
              msgs == (IF call.isPdf /\ Len(call.rects) > 0 THEN {created} ELSE {})
                      \cup (IF ~call.isPdf /\ call.highlightId = NoId
                               /\ call.localId # NoId THEN {saved} ELSE {})
              entries == IF call.op = "PATCH"
                         THEN removeHighlightFromSummary(summary, call.url, call.page,
                                                         call.fingerprint)
                         ELSE summary
          IN /\ nextHid' = IF call.op = "POST" THEN highlight_id ELSE nextHid
             /\ card' = IF CardOf(call)
                        THEN [card EXCEPT !.highlightId = highlight_id, !.saving = FALSE]
                        ELSE card
             /\ activeHighlightRef' =
                  [highlightId |-> highlight_id, localId |-> call.localId]
             /\ summary' = addHighlightToSummary(entries,
                  [highlightId |-> highlight_id, localId |-> call.localId,
                   url |-> call.url, isPdf |-> call.isPdf, page |-> call.page,
                   rects |-> call.rects, sentiment |-> call.sentiment,
                   fingerprint |-> call.fingerprint],
                  IF documentsIndex[call.url] = NoDoc THEN <<>>
                  ELSE documentsIndex[call.url].highlight_order)
             /\ documentsIndex' =
                  IF documentsIndex[call.url] = NoDoc THEN documentsIndex
                  ELSE [documentsIndex EXCEPT ![call.url].highlights =
                          Append(WithoutHighlight(@, call.highlightId),
                                 [highlight_id |-> highlight_id, page |-> call.page,
                                  rects |-> call.rects, sentiment |-> call.sentiment])]
             /\ storedDocuments' =
                  IF documentsIndex[call.url] = NoDoc THEN storedDocuments
                  ELSE documentsIndex'
             /\ inbox' = SendAll(inbox, "panel", msgs, {})
     ELSE /\ card' = IF CardOf(call) THEN [card EXCEPT !.saving = FALSE] ELSE card
          /\ inbox' = SendAll(inbox, "panel",
               IF ~call.isPdf /\ call.highlightId = NoId /\ call.localId # NoId
               THEN {[type |-> "HTML_HIGHLIGHT_SAVE_FAILED", local_id |-> call.localId]}
               ELSE {}, {})
          /\ UNCHANGED <<nextHid, activeHighlightRef, summary, documentsIndex,
                         storedDocuments>>

\* A removal that never asks the persistence service: always FALSE here.
IsLocalRemoval_Never(request) == FALSE

\* if (!highlightId): the highlight was never confirmed, the removal is local.
IsLocalRemoval(request) == request.highlight_id = NoId

\* handleHtmlHighlightRemovalRequest(request); taken is the message that
\* carried the request (empty when the card's Remove button did).
handleHtmlHighlightRemovalRequest(request, taken) ==
  LET docUrl == IF request.document_url # NoUrl THEN request.document_url
                ELSE currentTabInfo
      removed == [type |-> "HTML_HIGHLIGHT_REMOVED", local_id |-> request.local_id,
                  highlight_id |-> NoId]
      cancelled == [type |-> "PDF_HIGHLIGHT_CANCELLED", highlight_id |-> NoId,
                    local_id |-> request.local_id, url |-> docUrl,
                    page |-> request.page, fingerprint |-> request.fingerprint,
                    relayed |-> FALSE]
      failed == [type |-> "HTML_HIGHLIGHT_REMOVE_FAILED", local_id |-> request.local_id,
                 highlight_id |-> request.highlight_id]
  IN IF ~currentSession
     THEN /\ inbox' = SendAll(inbox, "panel", {failed}, taken)
          /\ UNCHANGED <<summary, card, activeHighlightRef, apiCalls>>
     ELSE IF IsLocalRemoval(request)
     THEN /\ summary' = removeHighlightEntryById(summary, NoId, request.local_id)
          /\ IF maybeClearActiveHighlight(activeHighlightRef, NoId, request.local_id)
             THEN card' = NoCard /\ activeHighlightRef' = NoRef
             ELSE UNCHANGED <<card, activeHighlightRef>>
          /\ inbox' = SendAll(inbox, "panel",
               {removed} \cup (IF request.is_pdf THEN {cancelled} ELSE {}), taken)
          /\ UNCHANGED apiCalls
     ELSE /\ apiCalls' = apiCalls \cup
               {[op |-> "DELETE", highlightId |-> request.highlight_id,
                 localId |-> request.local_id, url |-> docUrl,
                 isPdf |-> request.is_pdf, page |-> request.page, rects |-> <<>>,
                 sentiment |-> "", fingerprint |-> request.fingerprint,
                 tabId |-> request.tabId]}
          /\ inbox' = SendAll(inbox, "panel", {}, taken)
          /\ UNCHANGED <<summary, card, activeHighlightRef>>

\* onMessage HTML_HIGHLIGHT_REMOVE_REQUEST
PanelRemoveRequest(m) ==
  /\ m \in inbox["panel"] /\ m.type = "HTML_HIGHLIGHT_REMOVE_REQUEST"
  /\ ~currentSession \/ IsLocalRemoval(m) \/ Cardinality(apiCalls) < MaxCalls
  /\ handleHtmlHighlightRemovalRequest(m, {m})
  /\ UNCHANGED <<asyncVars, agentVars, searchVars, storedDocuments, pageVars, viewerVars, openTabs, currentSession, activeTab, documentsIndex,
                 nextHid, nextLocal>>

\* The Remove button of the card
PanelRemoveClick ==
  /\ Settled
  /\ card # NoCard
  /\ card.highlightId = NoId \/ Cardinality(apiCalls) < MaxCalls
  /\ handleHtmlHighlightRemovalRequest(
       [highlight_id |-> card.highlightId, local_id |-> card.localId,
        document_url |-> card.url, is_pdf |-> card.isPdf, page |-> card.page,
        fingerprint |-> fingerprintFromSelector(card.rects), tabId |-> NoId], {})
  /\ UNCHANGED <<asyncVars, agentVars, searchVars, storedDocuments, pageVars, viewerVars, openTabs, currentSession, activeTab, documentsIndex,
                 nextHid, nextLocal>>

\* handleHtmlHighlightRemovalRequest continues after the DELETE settles.
ApiRespondDelete(call, ok) ==
  /\ call \in apiCalls /\ call.op = "DELETE"
  /\ apiCalls' = apiCalls \ {call}
  /\ UNCHANGED <<asyncVars, agentVars, searchVars, pageVars, viewerVars, openTabs, currentSession, activeTab, nextHid, nextLocal>>
  /\ IF ok
     THEN /\ summary' = removeHighlightEntryById(summary, call.highlightId, call.localId)
          /\ documentsIndex' =
               pruneHighlightFromDocuments(documentsIndex, call.url, call.highlightId)
          /\ storedDocuments' = IF storesPruned(documentsIndex, call.url)
                                THEN documentsIndex' ELSE storedDocuments
          /\ IF maybeClearActiveHighlight(activeHighlightRef, call.highlightId,
                                          call.localId)
             THEN card' = NoCard /\ activeHighlightRef' = NoRef
             ELSE UNCHANGED <<card, activeHighlightRef>>
          /\ inbox' = SendAll(inbox, "panel",
               {[type |-> "HTML_HIGHLIGHT_REMOVED", local_id |-> call.localId,
                 highlight_id |-> call.highlightId]}
               \cup (IF call.isPdf
                     THEN {[type |-> "PDF_HIGHLIGHT_CANCELLED",
                            highlight_id |-> call.highlightId,
                            local_id |-> call.localId, url |-> call.url,
                            page |-> call.page, fingerprint |-> call.fingerprint,
                            relayed |-> FALSE]}
                     ELSE {}), {})
     ELSE /\ inbox' = SendAll(inbox, "panel",
               {[type |-> "HTML_HIGHLIGHT_REMOVE_FAILED", local_id |-> call.localId,
                 highlight_id |-> call.highlightId]}, {})
          /\ UNCHANGED <<summary, documentsIndex, storedDocuments, card,
                         activeHighlightRef>>

\* onMessage PDF_HIGHLIGHT_CANCELLED in the side panel
PanelPdfCancelled(m) ==
  /\ m \in inbox["panel"] /\ m.type = "PDF_HIGHLIGHT_CANCELLED"
  /\ inbox' = SendAll(inbox, "panel", {}, {m})
  /\ IF currentSession
     THEN LET docUrl == IF m.url # NoUrl THEN m.url ELSE currentTabInfo
          IN /\ summary' = removeHighlightEntryById(summary, m.highlight_id, m.local_id)
             /\ card' = NoCard
             /\ activeHighlightRef' = NoRef
             /\ documentsIndex' =
                  pruneHighlightFromDocuments(documentsIndex, docUrl, m.highlight_id)
             /\ storedDocuments' = IF storesPruned(documentsIndex, docUrl)
                                   THEN documentsIndex' ELSE storedDocuments
     ELSE UNCHANGED <<summary, card, activeHighlightRef, documentsIndex,
                      storedDocuments>>
  /\ UNCHANGED <<asyncVars, agentVars, searchVars, pageVars, viewerVars, openTabs, currentSession, activeTab, apiVars, nextLocal>>

\* The orders in which the ids of a set can be listed.
RECURSIVE Orders(_)
Orders(ids) ==
  IF ids = {} THEN {<<>>}
  ELSE UNION {{<<i>> \o rest : rest \in Orders(ids \ {i})} : i \in ids}

\* The lists the dialog can hold for a paper with these highlights: it lists
\* highlights that were stored when it was opened, at least one, dragged into
\* an order.
Listings(ids) == UNION {Orders(listedIds) : listedIds \in (SUBSET ids) \ {{}}}

RECURSIVE getHighlightOrder(_)
\* getHighlightOrder: the ids of the list items, first occurrences only.
getHighlightOrder(listed) ==
  IF Len(listed) = 0 THEN <<>>
  ELSE <<Head(listed)>> \o getHighlightOrder(FilterSeq(Tail(listed), {Head(listed)}))

\* The highlights the order names, left in the order of the array.
ReorderedOnce_InPlace(highlights, order) ==
  SelectSeq(highlights, LAMBDA h : h.highlight_id \in {order[i] : i \in 1..Len(order)})

RECURSIVE ReorderedOnce(_, _)
\* One highlight per id of the order (map.get(id), used ids skipped).
ReorderedOnce(highlights, order) ==
  IF Len(order) = 0 THEN <<>>
  ELSE LET last == SelectSeq(highlights, LAMBDA h : h.highlight_id = Head(order))
       IN (IF Len(last) = 0 THEN <<>> ELSE <<last[Len(last)]>>)
          \o ReorderedOnce(highlights, FilterSeq(Tail(order), {Head(order)}))

\* The highlights the order does not place, as they were.
Unordered(highlights, order) ==
  LET used == {order[i] : i \in 1..Len(order)}
              \cap {highlights[i].highlight_id : i \in 1..Len(highlights)}
  IN SelectSeq(highlights, LAMBDA h : h.highlight_id \notin used)

\* reorderHighlights(list, order) of the viewer's dialog
reorderHighlights(list, order) ==
  IF Len(list) = 0 \/ Len(order) = 0 THEN list
  ELSE ReorderedOnce(list, order) \o Unordered(list, order)

\* The Save button of the viewer's "complete paper" dialog: the order of the
\* list is persisted (the service answers with it), the stored entry of the
\* paper is rewritten in that order and the review is announced.
ViewerReviewSaved(listed) ==
  /\ AtRest
  /\ currentSession
  /\ activeTab = ViewerTabUrl
  /\ storedDocuments[PdfUrl] # NoDoc
  /\ CachedIds(storedDocuments[PdfUrl]) # {}
  /\ listed \in Listings(CachedIds(storedDocuments[PdfUrl]))
  /\ LET highlightIds == getHighlightOrder(listed)
     IN /\ storedDocuments' =
             [storedDocuments EXCEPT ![PdfUrl] =
                [@ EXCEPT !.highlight_order = highlightIds,
                          !.highlights = reorderHighlights(@, highlightIds)]]
        /\ inbox' = SendAll(inbox, "viewer",
             {[type |-> "PDF_REVIEW_SAVED", url |-> PdfUrl,
               highlight_order |-> highlightIds]}, {})
  /\ UNCHANGED <<asyncVars, agentVars, searchVars, pageVars, viewerVars, panelVars, apiVars, nextLocal>>

\* onMessage PDF_REVIEW_SAVED
PanelReviewSaved(m) ==
  /\ m \in inbox["panel"] /\ m.type = "PDF_REVIEW_SAVED"
  /\ inbox' = SendAll(inbox, "panel", {}, {m})
  /\ documentsIndex' =
       IF ~currentSession \/ documentsIndex[m.url] = NoDoc THEN documentsIndex
       ELSE [documentsIndex EXCEPT ![m.url] =
               [@ EXCEPT !.highlight_order = m.highlight_order,
                         !.highlights = ReorderedOnce(@, m.highlight_order)
                                        \o Unordered(@, m.highlight_order)]]
  /\ storedDocuments' =
       IF ~currentSession \/ documentsIndex[m.url] = NoDoc THEN storedDocuments
       ELSE documentsIndex'
  /\ summary' =
       IF ~currentSession \/ documentsIndex[m.url] = NoDoc THEN summary
       ELSE updateDocumentReview(summary, m.url, m.highlight_order)
  /\ UNCHANGED <<asyncVars, agentVars, searchVars, pageVars, viewerVars, openTabs, currentSession, activeTab, card,
                 activeHighlightRef, apiVars, nextLocal>>

\* chrome.tabs.onActivated: the annotator switches to another tab. The tab
\* left is hidden: the content script's visibilitychange listener clears its
\* pending selection (the viewer has no such listener).
TabActivated(url) ==
  /\ Settled
  /\ url \in {TabUrl(tab) : tab \in openTabs}
  /\ url # activeTab
  /\ activeTab' = url
  /\ IF activeTab = PageUrl
     THEN clearPendingSelection
     ELSE UNCHANGED <<pendingSelection, selectionPopover, lastSelectionSignature>>
  /\ UNCHANGED <<asyncVars, windowSelection, sendTimers, searchVars, storedDocuments, pageVars, viewerVars, openTabs, currentSession, documentsIndex,
                 summary, card,
                 activeHighlightRef, apiVars, inbox, nextLocal>>

\* ---------------------------------------------------------- capture agents
\* The annotator makes the next gesture of a selection when the last one's
\* messages have been handled.
Quiet == AtRest /\ sendTimers = {}

\* The selection the annotator has just made: no run of handleSelection has
\* seen it yet.
Selected(selection) ==
  IF selection = NoSelection THEN NoSelection ELSE Spread(selection, [handled |-> FALSE])

\* The selections after the agent's handleSelection has read window.getSelection().
Handled(agent) ==
  IF windowSelection[agent] = NoSelection THEN windowSelection
  ELSE [windowSelection EXCEPT ![agent].handled = TRUE]

\* The annotator presses the mouse on the flat page, outside the popover
\* and outside a highlight (mousedown hides the popover), and drags to
\* select, or clicks to collapse the selection.
PageSelect(selection) ==
  /\ Quiet
  /\ PageTab \in openTabs /\ activeTab = PageUrl
  /\ Selected(selection) # windowSelection["page"]
  /\ windowSelection' = [windowSelection EXCEPT !["page"] = Selected(selection)]
  /\ selectionPopover' = [selectionPopover EXCEPT !["page"] = FALSE]
  /\ UNCHANGED <<asyncVars, pendingSelection, lastSelectionSignature, sendTimers, searchVars,
                 storedDocuments, pageVars, viewerVars, panelVars, apiVars, inbox,
                 nextLocal>>

\* JSON.stringify(signatureParts) of the content script's handleSelection
PageSignature(selection) == <<selection.place>> \o selection.passage

\* The CONTENT_SELECTION the content script forwards for a selection inside
\* an embedded PDF page.
ForwardedPdfSelection ==
  [type |-> "CONTENT_SELECTION", tab |-> PageTab, local_id |-> NoId, url |-> PageUrl,
   docType |-> "pdf", page |-> 1, rects |-> <<>>, sentiment |-> ""]

\* handleSelection of the content script, run by the mouseup timer, the
\* selectionchange frame or the keyup timer.
PageHandleSelection(outcome) ==
  /\ PageTab \in openTabs /\ activeTab = PageUrl
  /\ Quiet
  /\ LET selection == windowSelection["page"]
         signature == PageSignature(selection)
     IN IF selection = NoSelection
        THEN clearPendingSelection /\ UNCHANGED <<sendTimers, inbox>>
        ELSE IF selection.place = "pdf"
        THEN /\ lastSelectionSignature' =
                  [lastSelectionSignature EXCEPT !["page"] = signature]
             /\ pendingSelection' = [pendingSelection EXCEPT !["page"] = NoPending]
             /\ selectionPopover' = [selectionPopover EXCEPT !["page"] = FALSE]
             /\ sendTimers' = safeSendMessage(sendTimers, "page", ForwardedPdfSelection,
                                              2, 2, 1, outcome)
             /\ inbox' = Attempted(inbox, "page", ForwardedPdfSelection, outcome)
        ELSE IF signature = lastSelectionSignature["page"]
                /\ pendingSelection["page"] # NoPending
        THEN UNCHANGED <<lastSelectionSignature, pendingSelection, selectionPopover,
                         sendTimers, inbox>>
        ELSE /\ lastSelectionSignature' =
                  [lastSelectionSignature EXCEPT !["page"] = signature]
             /\ pendingSelection' =
                  [pendingSelection EXCEPT !["page"] =
                     [signature |-> signature, passage |-> selection.passage,
                      page |-> 0]]
             /\ selectionPopover' = [selectionPopover EXCEPT !["page"] = TRUE]
             /\ UNCHANGED <<sendTimers, inbox>>
  /\ windowSelection' = Handled("page")
  /\ UNCHANGED <<asyncVars, searchVars, storedDocuments, pageVars, viewerVars,
                 panelVars, apiVars, nextLocal>>

\* commitPendingSelection of the content script (the popover's Save).
\* wrapped tells whether applyHighlightToRange wrapped the range (it returns
\* null for a range that has collapsed and when the DOM refuses the wrapper).
PageCommitPending(wrapped, outcome) ==
  /\ PageTab \in openTabs /\ activeTab = PageUrl
  /\ Quiet
  /\ nextLocal < MaxLocal
  /\ pendingSelection["page"] # NoPending
  /\ selectionPopover["page"]
  /\ LET localId == IF wrapped THEN nextLocal + 1 ELSE NoId
         msg == [type |-> "CONTENT_SELECTION", tab |-> PageTab, local_id |-> localId,
                 url |-> PageUrl,
                 docType |-> "html", page |-> 0, rects |-> <<>>,
                 sentiment |-> "thumbsup"]
     IN /\ nextLocal' = IF wrapped THEN localId ELSE nextLocal
        /\ htmlMarks' = IF wrapped
                        THEN htmlMarks \cup {[localId |-> localId, highlightId |-> NoId]}
                        ELSE htmlMarks
        /\ highlightRegistry' =
             IF wrapped
             THEN RegistrySet(highlightRegistry, localId, [highlightId |-> NoId])
             ELSE highlightRegistry
        /\ sendTimers' = safeSendMessage(sendTimers, "page", msg, 2, 2, 1, outcome)
        /\ inbox' = Attempted(inbox, "page", msg, outcome)
  /\ pendingSelection' = [pendingSelection EXCEPT !["page"] = NoPending]
  /\ selectionPopover' = [selectionPopover EXCEPT !["page"] = FALSE]
  /\ windowSelection' = [windowSelection EXCEPT !["page"] = NoSelection]
  /\ UNCHANGED <<asyncVars, lastSelectionSignature, searchVars, storedDocuments, viewerVars,
                 panelVars, apiVars>>

\* The popover's Cancel: clearPendingSelection.
PageCancel ==
  /\ Quiet
  /\ PageTab \in openTabs /\ activeTab = PageUrl
  /\ selectionPopover["page"]
  /\ clearPendingSelection
  /\ UNCHANGED <<asyncVars, windowSelection, sendTimers, searchVars, storedDocuments, pageVars,
                 viewerVars, panelVars, apiVars, inbox, nextLocal>>

\* keyup of Escape: clearPendingSelection and removeAllRanges.
PageEscape ==
  /\ Quiet
  /\ PageTab \in openTabs /\ activeTab = PageUrl
  /\ pendingSelection["page"] # NoPending \/ windowSelection["page"] # NoSelection
  /\ clearPendingSelection
  /\ windowSelection' = [windowSelection EXCEPT !["page"] = NoSelection]
  /\ UNCHANGED <<asyncVars, sendTimers, searchVars, storedDocuments, pageVars, viewerVars,
                 panelVars, apiVars, inbox, nextLocal>>

\* The annotator presses the mouse in the viewer, outside the toolbar
\* (mousedown: resetSelectionSignature), and drags over a passage of a
\* rendered page, or clicks to collapse the selection.
ViewerSelect(selection) ==
  /\ Quiet
  /\ ViewerTab \in openTabs /\ activeTab = ViewerTabUrl
  /\ selection # NoSelection => pageViewports[selection.page] # NoViewport
  /\ Selected(selection) # windowSelection["viewer"]
  /\ windowSelection' = [windowSelection EXCEPT !["viewer"] = Selected(selection)]
  /\ resetSelectionSignature
  /\ UNCHANGED <<asyncVars, sendTimers, searchVars, storedDocuments, pageVars, viewerVars,
                 panelVars, apiVars, inbox, nextLocal>>

\* The rects handleSelection captures for the selection at the present zoom.
CapturedRects(selection) ==
  [i \in 1..Len(selection.passage) |-> ClientRect(selection.passage[i], currentScale)]

\* JSON.stringify([text, pageNumber, primaryRect.x1, primaryRect.y1,
\* rects.length]) of the viewer's handleSelection; the passage's first rect
\* stands for its text.
ViewerSignature(selection) ==
  LET rects == CapturedRects(selection)
  IN <<selection.passage[1], selection.page, rects[1].x1, rects[1].y1, Len(rects)>>

\* handleSelection of the viewer, run 50 ms after a selectionchange.
ViewerHandleSelection ==
  /\ Quiet
  /\ ViewerTab \in openTabs /\ activeTab = ViewerTabUrl
  /\ LET selection == windowSelection["viewer"]
     IN IF selection = NoSelection
        THEN /\ selectionPopover' = [selectionPopover EXCEPT !["viewer"] = FALSE]
             /\ UNCHANGED <<lastSelectionSignature, pendingSelection>>
        ELSE IF ViewerSignature(selection) = lastSelectionSignature["viewer"]
        THEN UNCHANGED <<lastSelectionSignature, pendingSelection, selectionPopover>>
        ELSE /\ lastSelectionSignature' =
                  [lastSelectionSignature EXCEPT !["viewer"] = ViewerSignature(selection)]
             /\ pendingSelection' =
                  [pendingSelection EXCEPT !["viewer"] =
                     [signature |-> ViewerSignature(selection),
                      passage |-> CapturedRects(selection),
                      page |-> selection.page]]
             /\ selectionPopover' = [selectionPopover EXCEPT !["viewer"] = TRUE]
  /\ windowSelection' = Handled("viewer")
  /\ UNCHANGED <<asyncVars, sendTimers, searchVars, storedDocuments, pageVars,
                 viewerVars, panelVars, apiVars, inbox, nextLocal>>

\* commitPendingSelection of the viewer (a sentiment is chosen in the
\* toolbar).
ViewerCommitPending(sentiment, outcome) ==
  /\ ViewerTab \in openTabs /\ activeTab = ViewerTabUrl
  /\ Quiet
  /\ nextLocal < MaxLocal
  /\ pendingSelection["viewer"] # NoPending
  /\ selectionPopover["viewer"]
  /\ LET localId == nextLocal + 1
         p == pendingSelection["viewer"].page
         rects == pendingSelection["viewer"].passage
         overlayColor == sentimentToOverlayColor(sentiment)
         added == addOverlayHighlights(pageHighlightData, pendingHighlightQueue,
                                       pageViewports, p,
                                       [i \in 1..Len(rects) |->
                                          Spread(rects[i],
                                                 [color |-> overlayColor,
                                                  localId |-> localId,
                                                  highlightId |-> NoId])])
         msg == [type |-> "PDF_SELECTION", tab |-> ViewerTab, local_id |-> localId,
                 url |-> PdfUrl,
                 docType |-> "pdf", page |-> p, rects |-> rects, sentiment |-> sentiment]
     IN /\ nextLocal' = localId
        /\ pageHighlightData' = added.data
        /\ pendingHighlightQueue' = added.queue
        /\ sendTimers' = safeSendMessage(sendTimers, "viewer", msg, 2, 2, 1, outcome)
        /\ inbox' = Attempted(inbox, "viewer", msg, outcome)
  /\ pendingSelection' = [pendingSelection EXCEPT !["viewer"] = NoPending]
  /\ lastSelectionSignature' = [lastSelectionSignature EXCEPT !["viewer"] = NoSignature]
  /\ selectionPopover' = [selectionPopover EXCEPT !["viewer"] = FALSE]
  /\ UNCHANGED <<asyncVars, windowSelection, searchVars, storedDocuments, pageVars, pageViewports,
                 currentScale, viewerListening, panelVars, apiVars>>

\* ---------------------------------------------------------- search episodes
\* The searches the page's URL names during a behaviour.
Searches ==
  {[platform |-> "google_scholar", query |-> "first query"],
   [platform |-> "google_scholar", query |-> "second query"]}

\* slice(0, 50) of appendSearchEpisode and appendInteraction
TrajectoryCap == 50

\* The annotator navigates and clicks while the worker has handed out fewer
\* than MaxEpisodes timestamps and the traffic has been handled.
Browsing == Quiet /\ clock < MaxEpisodes /\ PageTab \in openTabs

SearchQueryMessage(search) ==
  [type |-> "SEARCH_QUERY", tab |-> PageTab, platform |-> search.platform,
   query |-> search.query]

\* The page's tab loads a URL: a new content script starts, with
\* lastSearchSignature = null and nothing highlighted or pending, and calls
\* checkForSearchQuery().
PageLoad(search) ==
  /\ Browsing
  /\ locationQuery' = search
  /\ highlightRegistry' = <<>>
  /\ htmlMarks' = {}
  /\ windowSelection' = [windowSelection EXCEPT !["page"] = NoSelection]
  /\ clearPendingSelection
  /\ sendTimers' = {timer \in sendTimers : timer.from # "page"}
  /\ IF search = NoSearch
     THEN /\ lastSearchSignature' = NoSearch
          /\ UNCHANGED inbox
     ELSE /\ lastSearchSignature' = search
          /\ inbox' = SendAll(inbox, "page", {SearchQueryMessage(search)}, {})
  /\ UNCHANGED <<asyncVars, lastSearchByTab, trajectory, trajectoryIndex, bgCalls, searchCalls,
                 clock, storedDocuments, viewerVars, panelVars, apiVars, nextLocal>>

\* The page changes its URL without loading (history.pushState, back and
\* forward): window.location.href as checkForSearchQuery reads it next.
HistoryChange(search) ==
  /\ Browsing
  /\ search # locationQuery
  /\ locationQuery' = search
  /\ UNCHANGED <<asyncVars, agentVars, lastSearchSignature, lastSearchByTab, trajectory,
                 trajectoryIndex, bgCalls, searchCalls, clock, storedDocuments,
                 pageVars, viewerVars, panelVars, apiVars, inbox, nextLocal>>

\* checkForSearchQuery(), from setInterval and popstate, when the URL names
\* a search that is not the last one recorded
CheckForSearchQuery ==
  /\ Browsing
  /\ locationQuery # NoSearch
  /\ locationQuery # lastSearchSignature
  /\ lastSearchSignature' = locationQuery
  /\ inbox' = SendAll(inbox, "page", {SearchQueryMessage(locationQuery)}, {})
  /\ UNCHANGED <<asyncVars, agentVars, locationQuery, lastSearchByTab, trajectory,
                 trajectoryIndex, bgCalls, searchCalls, clock, storedDocuments,
                 pageVars, viewerVars, panelVars, apiVars, nextLocal>>

\* The click listener of the content script, for a click on a link.
PageClickAnchor(outcome) ==
  /\ Browsing
  /\ LET msg == [type |-> "SEARCH_INTERACTION", tab |-> PageTab,
                 kind |-> "open_result", url |-> PageUrl]
     IN /\ sendTimers' = safeSendMessage(sendTimers, "page", msg, 1, 1, 1, outcome)
        /\ inbox' = Attempted(inbox, "page", msg, outcome)
  /\ UNCHANGED <<asyncVars, windowSelection, pendingSelection, lastSelectionSignature,
                 selectionPopover, searchVars, storedDocuments, pageVars, viewerVars,
                 panelVars, apiVars, nextLocal>>

\* onMessage of the background worker, SEARCH_QUERY: nothing without a
\* session or for the pair recorded last for the tab; otherwise the pair is
\* remembered and the episode is posted.
BgSearchQuery(m) ==
  /\ m \in inbox["bg"] /\ m.type = "SEARCH_QUERY"
  /\ inbox' = SendAll(inbox, "bg", {}, {m})
  /\ LET previous == lastSearchByTab[m.tab]
         timestamp == clock + 1
         baseEpisode == [platform |-> m.platform, query |-> m.query,
                         timestamp |-> timestamp,
                         id |-> <<timestamp, m.platform>>]
     IN IF \/ ~currentSession
           \/ (previous.query = m.query /\ previous.platform = m.platform)
        THEN UNCHANGED <<lastSearchByTab, clock, searchCalls, bgCalls>>
        ELSE /\ lastSearchByTab' =
                  [lastSearchByTab EXCEPT ![m.tab] =
                     [platform |-> m.platform, query |-> m.query]]
             /\ clock' = timestamp
             /\ searchCalls' = Append(searchCalls,
                                      [tab |-> m.tab, platform |-> m.platform,
                                       query |-> m.query, timestamp |-> timestamp])
             /\ bgCalls' = bgCalls \cup
                  {[op |-> "post", list |-> "searchEpisodes", entry |-> baseEpisode]}
  /\ UNCHANGED <<asyncVars, agentVars, locationQuery, lastSearchSignature, trajectory,
                 trajectoryIndex, storedDocuments, pageVars, viewerVars, panelVars,
                 apiVars, nextLocal>>

\* onMessage of the background worker, SEARCH_INTERACTION
BgSearchInteraction(m) ==
  /\ m \in inbox["bg"] /\ m.type = "SEARCH_INTERACTION"
  /\ inbox' = SendAll(inbox, "bg", {}, {m})
  /\ LET timestamp == clock + 1
         baseEntry == [kind |-> m.kind, url |-> m.url, timestamp |-> timestamp,
                       id |-> <<m.kind, timestamp>>]
     IN IF ~currentSession
        THEN UNCHANGED <<clock, bgCalls>>
        ELSE /\ clock' = timestamp
             /\ bgCalls' = bgCalls \cup
                  {[op |-> "post", list |-> "interactions", entry |-> baseEntry]}
  /\ UNCHANGED <<asyncVars, agentVars, locationQuery, lastSearchSignature, lastSearchByTab,
                 trajectory, trajectoryIndex, searchCalls, storedDocuments, pageVars,
                 viewerVars, panelVars, apiVars, nextLocal>>

\* postJson settles: the entry, with the service's id when it answered, is
\* handed to appendSearchEpisode or appendInteraction (updateTrajectory asks
\* chrome.storage for the log) and broadcast.
BgPosted(call, ok) ==
  /\ call \in bgCalls /\ call.op = "post"
  /\ LET entry == IF ok
                  THEN [call.entry EXCEPT !.id = <<"service", call.entry.timestamp>>]
                  ELSE call.entry
         recorded == [type |-> IF call.list = "searchEpisodes" THEN "SEARCH_RECORDED"
                               ELSE "TRAJECTORY_INTERACTION_RECORDED",
                      payload |-> entry]
     IN /\ bgCalls' = (bgCalls \ {call}) \cup
                        {[op |-> "get", list |-> call.list, entry |-> entry]}
        /\ inbox' = SendAll(inbox, "bg", {recorded}, {})
  /\ UNCHANGED <<asyncVars, agentVars, locationQuery, lastSearchSignature, lastSearchByTab,
                 trajectory, trajectoryIndex, searchCalls, clock, storedDocuments,
                 pageVars, viewerVars, panelVars, apiVars, nextLocal>>

\* next.slice(0, 50)
Capped(entries) == SubSeq(entries, 1, Min(Len(entries), TrajectoryCap))

\* The mutators of appendSearchEpisode and appendInteraction.
appendSearchEpisode(existing, entry) ==
  [existing EXCEPT !.searchEpisodes = Capped(<<entry>> \o existing.searchEpisodes)]

appendInteraction(existing, entry) ==
  [existing EXCEPT !.interactions = Capped(<<entry>> \o existing.interactions)]

\* updateTrajectory: chrome.storage.local.get reads the log ...
BgTrajectoryRead(call) ==
  /\ call \in bgCalls /\ call.op = "get"
  /\ bgCalls' = (bgCalls \ {call}) \cup
                  {[op |-> "set", list |-> call.list, entry |-> call.entry,
                    existing |-> trajectory]}
  /\ UNCHANGED <<asyncVars, agentVars, locationQuery, lastSearchSignature, lastSearchByTab,
                 trajectory, trajectoryIndex, searchCalls, clock, storedDocuments,
                 pageVars, viewerVars, panelVars, apiVars, inbox, nextLocal>>

\* ... and its callback applies the mutator to what was read and writes the
\* log back with chrome.storage.local.set.
BgTrajectoryWrite(call) ==
  /\ call \in bgCalls /\ call.op = "set"
  /\ bgCalls' = bgCalls \ {call}
  /\ trajectory' = IF call.list = "searchEpisodes"
                   THEN appendSearchEpisode(call.existing, call.entry)
                   ELSE appendInteraction(call.existing, call.entry)
  /\ UNCHANGED <<asyncVars, agentVars, locationQuery, lastSearchSignature, lastSearchByTab,
                 trajectoryIndex, searchCalls, clock, storedDocuments, pageVars,
                 viewerVars, panelVars, apiVars, inbox, nextLocal>>

\* The browser stops the idle service worker; the next event starts it again
\* with an empty lastSearchByTab.
BgWorkerRestart ==
  /\ inbox["bg"] = {} /\ bgCalls = {}
  /\ lastSearchByTab # [tab \in {PageTab, ViewerTab} |-> NoSearch]
  /\ lastSearchByTab' = [tab \in {PageTab, ViewerTab} |-> NoSearch]
  /\ UNCHANGED <<asyncVars, agentVars, locationQuery, lastSearchSignature, trajectory,
                 trajectoryIndex, bgCalls, searchCalls, clock, storedDocuments,
                 pageVars, viewerVars, panelVars, apiVars, inbox, nextLocal>>

\* The entry with the id `id` put in place of the one that has it, or in
\* front of the list, which is cut to 50.
Upserted(entries, entry) ==
  IF \E i \in 1..Len(entries) : entries[i].id = entry.id
  THEN [i \in 1..Len(entries) |->
          IF entries[i].id = entry.id THEN entry ELSE entries[i]]
  ELSE Capped(<<entry>> \o entries)

\* onMessage of the side panel, SEARCH_RECORDED: appendTrajectorySearch with
\* the platform, query and timestamp of the payload.
PanelSearchRecorded(m) ==
  /\ m \in inbox["panel"] /\ m.type = "SEARCH_RECORDED"
  /\ inbox' = SendAll(inbox, "panel", {}, {m})
  /\ LET entries == trajectoryIndex.searchEpisodes
         normalizedEntry ==
           [id |-> <<m.payload.platform, m.payload.timestamp, Len(entries)>>,
            platform |-> m.payload.platform, query |-> m.payload.query,
            timestamp |-> m.payload.timestamp]
     IN trajectoryIndex' =
          IF currentSession
          THEN [trajectoryIndex EXCEPT
                  !.searchEpisodes = Upserted(entries, normalizedEntry)]
          ELSE trajectoryIndex
  /\ UNCHANGED <<asyncVars, agentVars, locationQuery, lastSearchSignature, lastSearchByTab,
                 trajectory, bgCalls, searchCalls, clock, storedDocuments, pageVars,
                 viewerVars, panelVars, apiVars, nextLocal>>

\* onMessage of the side panel, TRAJECTORY_INTERACTION_RECORDED
PanelInteractionRecorded(m) ==
  /\ m \in inbox["panel"] /\ m.type = "TRAJECTORY_INTERACTION_RECORDED"
  /\ inbox' = SendAll(inbox, "panel", {}, {m})
  /\ LET normalizedEntry ==
           [id |-> m.payload.id, kind |-> m.payload.kind, url |-> m.payload.url,
            timestamp |-> m.payload.timestamp]
     IN trajectoryIndex' =
          IF currentSession
          THEN [trajectoryIndex EXCEPT
                  !.interactions = Upserted(trajectoryIndex.interactions,
                                            normalizedEntry)]
          ELSE trajectoryIndex
  /\ UNCHANGED <<asyncVars, agentVars, locationQuery, lastSearchSignature, lastSearchByTab,
                 trajectory, bgCalls, searchCalls, clock, storedDocuments, pageVars,
                 viewerVars, panelVars, apiVars, nextLocal>>

\* ------------------------------------------------- AI suggestions (panel)
\* updateActiveCardSuggestions(resolvedSuggestions, {prefillReasoning}) on
\* the card that is shown: the suggestions of the selection localId replace
\* what the card lists, the loading state ends, and an empty reasoning field
\* takes the detail of the first suggestion when prefillReasoning is set.
updateActiveCardSuggestions(shown, localId, prefillReasoning) ==
  [suggestions |-> localId, loading |-> FALSE,
   reasoning |-> IF prefillReasoning /\ shown.reasoning = NoId
                 THEN localId ELSE shown.reasoning]

\* onMessage FORWARD_SELECTION -> handleSelection as far as the await of the
\* /ai/suggestions request (ok tells whether ensureDocument succeeded): the
\* card is rendered with suggestion skeletons, loading, and the request is
\* issued.
PanelHandleSelection(m, ok) ==
  /\ m \in inbox["panel"] /\ m.type = "FORWARD_SELECTION"
  /\ IF currentSession /\ ok
     THEN /\ documentsIndex' =
               IF documentsIndex[m.url] = NoDoc
               THEN [documentsIndex EXCEPT ![m.url] =
                       [document_id |-> DocumentIdOf(m.url), type |-> m.docType,
                        highlights |-> <<>>, highlight_order |-> <<>>]]
               ELSE documentsIndex
          /\ card' = SelectionCard(m)
          /\ activeHighlightRef' = [highlightId |-> NoId, localId |-> m.local_id]
          /\ storedDocuments' = documentsIndex'
          /\ cardAi' = [suggestions |-> NoId, loading |-> TRUE, reasoning |-> NoId]
          /\ aiRequests' = aiRequests \cup
               {[localId |-> m.local_id, isPdf |-> (m.docType = "pdf")]}
     ELSE UNCHANGED <<documentsIndex, storedDocuments, card, activeHighlightRef,
                      suggestVars>>
  /\ inbox' = SendAll(inbox, "panel", {}, {m})
  /\ UNCHANGED <<intentVars, renderVars, agentVars, searchVars, pageVars, viewerVars,
                 openTabs, currentSession, activeTab, summary, apiVars, nextLocal>>

\* handleSelection continues after the /ai/suggestions request settles: the
\* suggestions of the response, or the fallback suggestions built from the
\* selection's text when it failed or was empty, go to
\* updateActiveCardSuggestions, which returns when no card is shown.
AiSuggestionsSettled(request) ==
  /\ request \in aiRequests
  /\ aiRequests' = aiRequests \ {request}
  /\ cardAi' = IF card = NoCard THEN cardAi
               ELSE updateActiveCardSuggestions(cardAi, request.localId, request.isPdf)
  /\ UNCHANGED <<intentVars, renderVars, agentVars, searchVars, storedDocuments,
                 pageVars, viewerVars, panelVars, apiVars, inbox, nextLocal>>

\* ------------------------------------------ search-intent suggestions (panel)
\* The ids of the entries of a list, in its order, that are in the set.
RECURSIVE IdsAmong(_, _)
IdsAmong(entries, ids) ==
  IF entries = <<>> THEN <<>>
  ELSE (IF Head(entries).id \in ids THEN <<Head(entries).id>> ELSE <<>>)
       \o IdsAmong(Tail(entries), ids)

\* The calls of the list but the i-th.
SansCall(calls, i) == SubSeq(calls, 1, i - 1) \o SubSeq(calls, i + 1, Len(calls))

\* maybeEnsureSearchReasonSuggestions over the episodes of the session, as
\* renderTrajectoryPanel calls it: the ids of the episodes a request is
\* issued for. An episode with suggestions, or with a request under way
\* (searchReasonRequests.has), gets none; no episode has a reason typed in.
maybeEnsureSearchReasonSuggestions(episodes, requests, suggested) ==
  IF currentSession
  THEN IdsAmong(episodes, {episodes[i].id : i \in 1..Len(episodes)}
                            \ (suggested \cup requests))
  ELSE <<>>

\* The set of the ids of a list of calls.
CallIds(calls) == {calls[i] : i \in 1..Len(calls)}

\* onMessage of the side panel, SEARCH_RECORDED: appendTrajectorySearch, and
\* the renderTrajectoryPanel it ends with; the render that
\* maybeEnsureSearchReasonSuggestions asks for while this one runs is made
\* by finishTrajectoryRender before the handler returns.
PanelSearchRecordedRender(m) ==
  /\ m \in inbox["panel"] /\ m.type = "SEARCH_RECORDED"
  /\ inbox' = SendAll(inbox, "panel", {}, {m})
  /\ LET entries == trajectoryIndex.searchEpisodes
         normalizedEntry ==
           [id |-> <<m.payload.platform, m.payload.timestamp, Len(entries)>>,
            platform |-> m.payload.platform, query |-> m.payload.query,
            timestamp |-> m.payload.timestamp]
         issued == maybeEnsureSearchReasonSuggestions(
                     trajectoryIndex'.searchEpisodes, searchReasonRequests, aiSuggested)
     IN /\ trajectoryIndex' =
             IF currentSession
             THEN [trajectoryIndex EXCEPT
                     !.searchEpisodes = Upserted(entries, normalizedEntry)]
             ELSE trajectoryIndex
        /\ intentIssued + Len(issued) <= MaxIntentRequests
        /\ searchReasonRequests' = searchReasonRequests \cup CallIds(issued)
        /\ intentCalls' = intentCalls \o issued
        /\ intentIssued' = intentIssued + Len(issued)
  /\ pendingTrajectoryRender' = FALSE
  /\ UNCHANGED <<aiSuggested, suggestVars, renderVars, agentVars, locationQuery,
                 lastSearchSignature, lastSearchByTab, trajectory, bgCalls, searchCalls,
                 clock, storedDocuments, pageVars, viewerVars, panelVars, apiVars,
                 nextLocal>>

\* What the /ai/search-intent request can come to.
IntentOutcomes == {"suggestions", "empty", "failed"}

\* The /ai/search-intent request intentCalls[i] settles: then() keeps the
\* normalised suggestions in the entry, catch() logs the failure, and
\* finally() deletes the request of the Map, ends aiLoading and calls
\* renderTrajectoryPanel, which runs maybeEnsureSearchReasonSuggestions over
\* the episodes again.
SearchIntentSettled(i, outcome) ==
  /\ i \in 1..Len(intentCalls)
  /\ LET id == intentCalls[i]
         suggested == IF outcome = "suggestions" THEN aiSuggested \cup {id}
                      ELSE aiSuggested
         issued == maybeEnsureSearchReasonSuggestions(
                     trajectoryIndex.searchEpisodes, searchReasonRequests \ {id},
                     suggested)
     IN /\ intentIssued + Len(issued) <= MaxIntentRequests
        /\ aiSuggested' = suggested
        /\ searchReasonRequests' = (searchReasonRequests \ {id}) \cup CallIds(issued)
        /\ intentCalls' = SansCall(intentCalls, i) \o issued
        /\ intentIssued' = intentIssued + Len(issued)
  /\ pendingTrajectoryRender' = FALSE
  /\ UNCHANGED <<suggestVars, renderVars, agentVars, searchVars, storedDocuments,
                 pageVars, viewerVars, panelVars, apiVars, inbox, nextLocal>>

\* -------------------------------------------------- renderAllPages (viewer)
\* currentPdf.numPages
NumPages == Cardinality(Pages)

\* The runs and containers that exist; a new run takes the least free number.
RunsInUse ==
  {run.id : run \in renderRuns} \cup {viewerEl[i].run : i \in 1..Len(viewerEl)}
  \cup {pageHighlightLayers[p] : p \in Pages}
FreeRun == CHOOSE n \in 1..(2 * MaxRenders + 2) :
             n \notin RunsInUse /\ \A k \in 1..(n - 1) : k \in RunsInUse

\* renderAllPages() as far as its first await: the viewer element is emptied
\* and the run waits for ensurePdfJs.
renderAllPages ==
  /\ viewerEl' = <<>>
  /\ renderRuns' = renderRuns \cup
       {[id |-> FreeRun, phase |-> "lib", page |-> 1, viewport |-> NoViewport]}

\* The viewer's script starts: loadPdf has the document and calls
\* renderAllPages.
LoadPdf ==
  /\ ViewerTab \in openTabs
  /\ ~viewerListening /\ renderRuns = {} /\ viewerEl = <<>>
  /\ \A p \in Pages : pageViewports[p] = NoViewport
  /\ renderAllPages
  /\ UNCHANGED <<suggestVars, intentVars, pageHighlightLayers, agentVars, searchVars,
                 storedDocuments, pageVars, viewerVars, panelVars, apiVars, inbox,
                 nextLocal>>

\* The zoom controls and the resize handler: setScale(scale), which does not
\* wait for the renderAllPages it calls, nor for one that is under way.
SetScaleRender(scale) ==
  /\ ViewerTab \in openTabs
  /\ viewerListening
  /\ Cardinality(renderRuns) < MaxRenders
  /\ LET clamped == Max(50, Min(scale, 400))
     IN /\ Abs(clamped - currentScale) >= 1
        /\ currentScale' = clamped
  /\ renderAllPages
  /\ UNCHANGED <<suggestVars, intentVars, pageHighlightLayers, agentVars, searchVars,
                 storedDocuments, pageVars, pageViewports, pageHighlightData,
                 pendingHighlightQueue, viewerListening, panelVars, apiVars, inbox,
                 nextLocal>>

\* The run with its fields changed, in place of the run.
RunsWith(run, changed) == (renderRuns \ {run}) \cup {Spread(run, changed)}

\* ensurePdfJs resolves: pageHighlightLayers.clear(), and the loop asks for
\* its first page.
RenderLibReady(run) ==
  /\ run \in renderRuns /\ run.phase = "lib"
  /\ pageHighlightLayers' = [p \in Pages |-> NoId]
  /\ renderRuns' = RunsWith(run, [phase |-> "getPage"])
  /\ UNCHANGED <<suggestVars, intentVars, viewerEl, agentVars, searchVars,
                 storedDocuments, pageVars, viewerVars, panelVars, apiVars, inbox,
                 nextLocal>>

\* currentPdf.getPage resolves: the viewport is cloned at currentScale as it
\* is now and stored, the container and its canvas are created, and the run
\* waits for page.render and the layers.
RenderPageFetched(run) ==
  /\ run \in renderRuns /\ run.phase = "getPage"
  /\ pageViewports' = [pageViewports EXCEPT ![run.page] = ViewportAt(currentScale)]
  /\ renderRuns' = RunsWith(run, [phase |-> "render",
                                  viewport |-> ViewportAt(currentScale)])
  /\ UNCHANGED <<suggestVars, intentVars, viewerEl, pageHighlightLayers, agentVars,
                 searchVars, storedDocuments, pageVars, pageHighlightData,
                 pendingHighlightQueue, currentScale, viewerListening, panelVars,
                 apiVars, inbox, nextLocal>>

\* page.render, the text layer and the annotations are done: the overlay
\* layer of the container is put in pageHighlightLayers, the queue of the
\* page is flushed and the container is appended to the viewer element; the
\* loop goes on to the next page, or the run ends (loadPdf then returns and
\* the script registers its onMessage listener).
RenderPageAppended(run) ==
  /\ run \in renderRuns /\ run.phase = "render"
  /\ pageHighlightLayers' = [pageHighlightLayers EXCEPT ![run.page] = run.id]
  /\ LET flushed == IF Len(pendingHighlightQueue[run.page]) = 0
                    THEN [data |-> pageHighlightData, queue |-> pendingHighlightQueue]
                    ELSE addOverlayHighlights(pageHighlightData,
                           [pendingHighlightQueue EXCEPT ![run.page] = <<>>],
                           pageViewports, run.page, pendingHighlightQueue[run.page])
     IN /\ pageHighlightData' = flushed.data
        /\ pendingHighlightQueue' = flushed.queue
  /\ viewerEl' = Append(viewerEl, [run |-> run.id, page |-> run.page,
                                   viewport |-> run.viewport])
  /\ IF run.page < NumPages
     THEN /\ renderRuns' = RunsWith(run, [phase |-> "getPage", page |-> run.page + 1])
          /\ UNCHANGED viewerListening
     ELSE /\ renderRuns' = renderRuns \ {run}
          /\ viewerListening' = TRUE
  /\ UNCHANGED <<suggestVars, intentVars, agentVars, searchVars, storedDocuments,
                 pageVars, pageViewports, currentScale, panelVars, apiVars, inbox,
                 nextLocal>>

\* ----------------------------------------------------------- specification
\* Everything but the session's log and the side panel's copy of it, which
\* chrome.storage keeps across restarts of the browser.
InitButLog ==
  /\ highlightRegistry = <<>>
  /\ htmlMarks = {}
  /\ pageViewports = [p \in Pages |-> NoViewport]
  /\ pageHighlightData = [p \in Pages |-> <<>>]
  /\ pendingHighlightQueue = [p \in Pages |-> <<>>]
  /\ currentScale = 100
  /\ viewerListening = FALSE
  /\ openTabs \in (SUBSET {PageTab, ViewerTab}) \ {{}}
  /\ currentSession \in BOOLEAN
  /\ activeTab \in {TabUrl(tab) : tab \in openTabs}
  /\ documentsIndex = [u \in DocUrls |-> NoDoc]
  /\ storedDocuments = [u \in DocUrls |-> NoDoc]
  /\ summary = {}
  /\ card = NoCard
  /\ activeHighlightRef = NoRef
  /\ apiCalls = {}
  /\ nextHid = 0
  /\ inbox = [c \in Contexts |-> {}]
  /\ nextLocal = 0
  /\ windowSelection = [agent \in Agents |-> NoSelection]
  /\ pendingSelection = [agent \in Agents |-> NoPending]
  /\ lastSelectionSignature = [agent \in Agents |-> NoSignature]
  /\ selectionPopover = [agent \in Agents |-> FALSE]
  /\ sendTimers = {}
  /\ locationQuery = NoSearch
  /\ lastSearchSignature = NoSearch
  /\ lastSearchByTab = [tab \in {PageTab, ViewerTab} |-> NoSearch]
  /\ bgCalls = {}
  /\ searchCalls = <<>>
  /\ clock = 0
  /\ aiRequests = {}
  /\ cardAi = NoCardAi
  /\ searchReasonRequests = {}
  /\ aiSuggested = {}
  /\ intentCalls = <<>>
  /\ intentIssued = 0
  /\ pendingTrajectoryRender = FALSE
  /\ viewerEl = <<>>
  /\ pageHighlightLayers = [p \in Pages |-> NoId]
  /\ renderRuns = {}

Init == InitButLog /\ trajectory = NoLog /\ trajectoryIndex = NoLog

\* What the flat page, the viewer with the panel's PDF handler, the review
\* dialog, and the background worker and side panel (with the persistence
\* service) can do.
PageNext ==
  \/ HtmlCommit
  \/ \E target \in htmlMarks : HtmlRequestRemoval(target)
  \/ \E m \in inbox["page"] : PageSaved(m)
  \/ \E m \in inbox["page"] : PageSaveFailed(m)
  \/ \E m \in inbox["page"] : PageRemoved(m)
  \/ \E m \in inbox["page"] : PageRemoveFailed(m)

ViewerNext ==
  \/ \E p \in Pages : RenderPage(p)
  \/ \E p \in Pages, selection \in PdfSelections :
       PdfCommit(p, selection.rects, selection.sentiment)
  \/ \E p \in Pages, i \in 1..(2 * MaxLocal) : RequestOverlayRemoval(p, i)
  \/ \E m \in inbox["viewer"] : ViewerCreated(m)
  \/ \E m \in inbox["viewer"] : ViewerCancelled(m)
  \/ \E m \in inbox["panel"] : PanelPdfCancelled(m)

ReviewNext ==
  \/ \E listed \in Listings(HighlightIds) : ViewerReviewSaved(listed)
  \/ \E m \in inbox["panel"] : PanelReviewSaved(m)

PanelNext ==
  \/ \E m \in inbox["bg"] : BgRelay(m)
  \/ \E m \in inbox["panel"], ok \in BOOLEAN : PanelForwardSelection(m, ok)
  \/ \E entry \in summary : PanelEdit(entry)
  \/ PanelSaveClick
  \/ \E call \in apiCalls, ok \in BOOLEAN : ApiRespondSave(call, ok)
  \/ \E m \in inbox["panel"] : PanelRemoveRequest(m)
  \/ PanelRemoveClick
  \/ \E call \in apiCalls, ok \in BOOLEAN : ApiRespondDelete(call, ok)

Next ==
  \/ PageNext
  \/ ViewerNext
  \/ ReviewNext
  \/ PanelNext
  \/ \E url \in {PageUrl, ViewerTabUrl} : TabActivated(url)
  \/ LoadFailed
  \/ \E scale \in Scales : SetScale(scale)
  \/ ViewerReload
  \/ \E m \in inbox["panel"] : PanelSelectionArrived(m)
  \/ \E call \in apiCalls, ok \in BOOLEAN : EnsureDocumentSettled(call, ok)

Spec == Init /\ [][Next]_vars

\* The annotator works in one tab: the flat page or the PDF viewer.
TabInit == Init /\ Cardinality(openTabs) = 1
TabNext == PageNext \/ ViewerNext \/ PanelNext
TabSpec == TabInit /\ [][TabNext]_vars

\* The annotator stays in the PDF viewer and completes the paper (the review
\* with its highlight order) when nothing else is under way.
ReviewInit == Init /\ openTabs = {ViewerTab}
ReviewOrPdfNext == ViewerNext \/ PanelNext \/ ReviewNext
ReviewSpec == ReviewInit /\ [][ReviewOrPdfNext]_vars

\* The annotator captures passages in the PDF viewer in a session, zooms
\* (the scales asked for are Scales), and may reload the viewer, whose next
\* load can fail.
CaptureInit == Init /\ openTabs = {ViewerTab} /\ currentSession
CaptureNext ==
  \/ \E p \in Pages : RenderPage(p)
  \/ LoadFailed
  \/ \E scale \in Scales : SetScale(scale)
  \/ ViewerReload
  \/ \E p \in Pages, selection \in PdfSelections :
       PdfCommit(p, selection.rects, selection.sentiment)
  \/ \E m \in inbox["bg"] : BgRelay(m)
  \/ \E m \in inbox["panel"], ok \in BOOLEAN : PanelForwardSelection(m, ok)
  \/ PanelSaveClick
  \/ \E call \in apiCalls, ok \in BOOLEAN : ApiRespondSave(call, ok)
  \/ \E m \in inbox["viewer"] : ViewerCreated(m)
CaptureSpec == CaptureInit /\ [][CaptureNext]_vars

\* The annotator captures passages of a paper in a session, edits saved
\* highlights and completes the paper, ranking its highlights.
RankInit == Init /\ openTabs = {ViewerTab} /\ currentSession
RankNext ==
  \/ \E p \in Pages : RenderPage(p)
  \/ \E p \in Pages, selection \in PdfSelections :
       PdfCommit(p, selection.rects, selection.sentiment)
  \/ \E m \in inbox["bg"] : BgRelay(m)
  \/ \E m \in inbox["panel"], ok \in BOOLEAN : PanelForwardSelection(m, ok)
  \/ \E entry \in summary : PanelEdit(entry)
  \/ PanelSaveClick
  \/ \E call \in apiCalls, ok \in BOOLEAN : ApiRespondSave(call, ok)
  \/ \E m \in inbox["viewer"] : ViewerCreated(m)
  \/ \E listed \in Listings(HighlightIds) : ViewerReviewSaved(listed)
  \/ \E m \in inbox["panel"] : PanelReviewSaved(m)
RankSpec == RankInit /\ [][RankNext]_vars

\* The annotator captures passages of a paper in a session; the side panel
\* registers the paper with the persistence service and the create call
\* takes its time.
EnsureInit == Init /\ openTabs = {ViewerTab} /\ currentSession
EnsureNext ==
  \/ \E p \in Pages : RenderPage(p)
  \/ \E p \in Pages, selection \in PdfSelections :
       PdfCommit(p, selection.rects, selection.sentiment)
  \/ \E m \in inbox["bg"] : BgRelay(m)
  \/ \E m \in inbox["panel"] : PanelSelectionArrived(m)
  \/ \E call \in apiCalls, ok \in BOOLEAN : EnsureDocumentSettled(call, ok)
  \/ PanelSaveClick
  \/ \E call \in apiCalls, ok \in BOOLEAN : ApiRespondSave(call, ok)
  \/ \E m \in inbox["viewer"] : ViewerCreated(m)
EnsureSpec == EnsureInit /\ [][EnsureNext]_vars

\* The annotator selects passages on the flat page and in the viewer, in a
\* session, with both tabs open; the popover and the toolbar take the
\* choices, and the channel to the background worker can fail.
AgentInit == Init /\ openTabs = {PageTab, ViewerTab} /\ currentSession
AgentNext ==
  \/ \E p \in Pages : RenderPage(p)
  \/ \E url \in {PageUrl, ViewerTabUrl} : TabActivated(url)
  \/ \E selection \in PageSelections \cup {NoSelection} : PageSelect(selection)
  \/ \E outcome \in SendOutcomes : PageHandleSelection(outcome)
  \/ \E wrapped \in BOOLEAN, outcome \in SendOutcomes : PageCommitPending(wrapped, outcome)
  \/ PageCancel
  \/ PageEscape
  \/ \E p \in Pages, selection \in ViewerSelections :
       ViewerSelect(Spread(selection, [page |-> p]))
  \/ ViewerSelect(NoSelection)
  \/ ViewerHandleSelection
  \/ \E sentiment \in {"thumbsup", "thumbsdown"}, outcome \in SendOutcomes :
       ViewerCommitPending(sentiment, outcome)
  \/ \E timer \in sendTimers, outcome \in SendOutcomes : SafeSendRetry(timer, outcome)
  \/ \E m \in inbox["bg"] : BgRelay(m)
  \/ \E m \in inbox["panel"], ok \in BOOLEAN : PanelForwardSelection(m, ok)
AgentSpec == AgentInit /\ [][AgentNext]_vars

\* The search page, the background worker and the side panel record search
\* episodes while a mark of the page is committed and relayed.
SearchInit == Init /\ openTabs = {PageTab}
SearchNext ==
  \/ \E search \in Searches \cup {NoSearch} : PageLoad(search)
  \/ \E search \in Searches \cup {NoSearch} : HistoryChange(search)
  \/ CheckForSearchQuery
  \/ \E m \in inbox["bg"] : BgSearchQuery(m)
  \/ \E call \in bgCalls, ok \in BOOLEAN : BgPosted(call, ok)
  \/ \E call \in bgCalls : BgTrajectoryRead(call)
  \/ \E call \in bgCalls : BgTrajectoryWrite(call)
  \/ \E m \in inbox["panel"] : PanelSearchRecorded(m)
  \/ BgWorkerRestart
  \/ HtmlCommit
  \/ \E m \in inbox["bg"] : BgRelay(m)
  \/ \E m \in inbox["panel"], ok \in BOOLEAN : PanelForwardSelection(m, ok)
SearchSpec == SearchInit /\ [][SearchNext]_vars

\* A log of earlier work in the session: n search episodes and m
\* interactions, newest first, recorded before the behaviour starts (their
\* timestamps count down from 0).
OldEpisode(i) ==
  [platform |-> "google_scholar",
   query |-> IF i % 2 = 0 THEN "first query" ELSE "second query",
   timestamp |-> 1 - i, id |-> <<"service", 1 - i>>]
OldInteraction(i) ==
  [kind |-> "open_result", url |-> PageUrl, timestamp |-> 1 - i,
   id |-> <<"service", 1 - i>>]
OldLog(n, m) ==
  [searchEpisodes |-> [i \in 1..n |-> OldEpisode(i)],
   interactions |-> [i \in 1..m |-> OldInteraction(i)]]

\* The session's log is one short of the cap, or full, when the page's tab
\* is opened; the side panel has loaded the same log.
LogInit ==
  /\ InitButLog /\ openTabs = {PageTab} /\ currentSession
  /\ trajectory \in {OldLog(n, m) : n, m \in {TrajectoryCap - 1, TrajectoryCap}}
  /\ trajectoryIndex = trajectory
LogNext ==
  \/ \E search \in Searches : PageLoad(search)
  \/ \E outcome \in SendOutcomes : PageClickAnchor(outcome)
  \/ \E timer \in sendTimers, outcome \in SendOutcomes : SafeSendRetry(timer, outcome)
  \/ \E m \in inbox["bg"] : BgSearchQuery(m)
  \/ \E m \in inbox["bg"] : BgSearchInteraction(m)
  \/ \E call \in bgCalls, ok \in BOOLEAN : BgPosted(call, ok)
  \/ \E call \in bgCalls : BgTrajectoryRead(call)
  \/ \E call \in bgCalls : BgTrajectoryWrite(call)
  \/ \E m \in inbox["panel"] : PanelSearchRecorded(m)
  \/ \E m \in inbox["panel"] : PanelInteractionRecorded(m)
LogSpec == LogInit /\ [][LogNext]_vars

\* Selections of the flat page and of the PDF reach the side panel closely
\* one after the other, before either document is registered.
OverlapInit == Init /\ openTabs = {PageTab, ViewerTab} /\ currentSession
OverlapNext ==
  \/ \E p \in Pages : RenderPage(p)
  \/ \E url \in {PageUrl, ViewerTabUrl} : TabActivated(url)
  \/ HtmlCommit
  \/ \E p \in Pages, selection \in PdfSelections :
       PdfCommit(p, selection.rects, selection.sentiment)
  \/ \E m \in inbox["bg"] : BgRelay(m)
  \/ \E m \in inbox["panel"] : PanelSelectionArrived(m)
  \/ \E call \in apiCalls, ok \in BOOLEAN : EnsureDocumentSettled(call, ok)
OverlapSpec == OverlapInit /\ [][OverlapNext]_vars

\* Selections of the flat page and of the PDF reach the side panel, which
\* asks for AI suggestions for each; the answers take their time.
SuggestInit == Init /\ openTabs = {PageTab, ViewerTab} /\ currentSession
SuggestNext ==
  \/ \E p \in Pages : RenderPage(p)
  \/ HtmlCommit
  \/ \E p \in Pages, selection \in PdfSelections :
       PdfCommit(p, selection.rects, selection.sentiment)
  \/ \E m \in inbox["bg"] : BgRelay(m)
  \/ \E m \in inbox["panel"], ok \in BOOLEAN : PanelHandleSelection(m, ok)
  \/ \E request \in aiRequests : AiSuggestionsSettled(request)
SuggestSpec == SuggestInit /\ [][SuggestNext]_vars

\* The search page is searched in a session; the side panel lists the
\* episodes and asks for search-intent suggestions, which can come, come
\* empty or fail.
IntentInit == Init /\ openTabs = {PageTab} /\ currentSession
IntentNext ==
  \/ \E search \in Searches : PageLoad(search)
  \/ \E m \in inbox["bg"] : BgSearchQuery(m)
  \/ \E call \in bgCalls, ok \in BOOLEAN : BgPosted(call, ok)
  \/ \E call \in bgCalls : BgTrajectoryRead(call)
  \/ \E call \in bgCalls : BgTrajectoryWrite(call)
  \/ \E m \in inbox["panel"] : PanelSearchRecordedRender(m)
  \/ \E i \in 1..Len(intentCalls), outcome \in IntentOutcomes :
       SearchIntentSettled(i, outcome)
IntentSpec == IntentInit /\ [][IntentNext]_vars

\* The annotator opens a paper in the viewer and zooms, also while the
\* pages are being rendered.
RenderInit == Init /\ openTabs = {ViewerTab}
RenderNext ==
  \/ LoadPdf
  \/ \E scale \in Scales : SetScaleRender(scale)
  \/ \E run \in renderRuns : RenderLibReady(run)
  \/ \E run \in renderRuns : RenderPageFetched(run)
  \/ \E run \in renderRuns : RenderPageAppended(run)
RenderSpec == RenderInit /\ [][RenderNext]_vars

\* ------------------------------------------------------------------ claims
\* Indices of the marks of a list that carry the highlightId.
MarksWith(marks, highlightId) ==
  {i \in 1..Len(marks) : marks[i].highlightId = highlightId}

\* The messages of a type waiting at a context.
Waiting(ctx, type) == {m \in inbox[ctx] : m.type = type}

\* The confirmations the viewer can apply to a rendered page of its PDF.
ViewerConfirmations ==
  {m \in Waiting("viewer", "PDF_HIGHLIGHT_CREATED") :
     m.url = PdfUrl /\ m.page \in Pages /\ pageViewports[m.page] # NoViewport}

\* The removals the viewer can apply to its PDF.
ViewerRemovals ==
  {m \in Waiting("viewer", "PDF_HIGHLIGHT_CANCELLED") : m.url = PdfUrl /\ m.page \in Pages}

\* The page's marks after the viewer has applied the confirmation m.
MarksAfter(data, m) ==
  CreatedOverlay(data, pendingHighlightQueue, pageViewports, m).data

\* C1: applying the same confirmation twice changes nothing more. In the
\* viewer the marks after the second PDF_HIGHLIGHT_CREATED equal the marks
\* after the first, and a confirmation with one rect leaves exactly one mark
\* with its highlightId; on the flat page the registry and the spans after the
\* second HTML_HIGHLIGHT_SAVED equal those after the first, and one span
\* carries the highlightId.
C1_ConfirmationIdempotent ==
  /\ \A m \in ViewerConfirmations :
       LET once == MarksAfter(pageHighlightData, m)
       IN /\ MarksAfter(once, m) = once
          /\ Len(m.rects) = 1 =>
               Cardinality(MarksWith(once[m.page], m.highlight_id)) = 1
  /\ \A m \in Waiting("page", "HTML_HIGHLIGHT_SAVED") :
       LET registry == SavedRegistry(highlightRegistry, m)
           spans == SavedMarks(highlightRegistry, htmlMarks, m)
       IN /\ SavedRegistry(registry, m) = registry
          /\ SavedMarks(registry, spans, m) = spans
          /\ m.local_id \in DOMAIN highlightRegistry =>
               Cardinality({s \in spans : s.highlightId = m.highlight_id}) = 1

\* C1 witness: the viewer is about to apply a confirmation a second time (the
\* copy relayed by the background worker; a mark already carries its
\* highlightId).
C1_SecondApplication ==
  \E m \in ViewerConfirmations :
    /\ m.relayed
    /\ Len(m.rects) = 1
    /\ MarksWith(pageHighlightData[m.page], m.highlight_id) # {}
    /\ [m EXCEPT !.relayed = FALSE] \notin inbox["viewer"]

\* The geometry a rect has as a mark of the page.
GeometryOf(rect, p) == normaliseRect(rect, pageViewports[p])

SameGeometry(mark, geometry) ==
  /\ mark.x1 = geometry.x1 /\ mark.y1 = geometry.y1
  /\ mark.x2 = geometry.x2 /\ mark.y2 = geometry.y2

\* The optimistic marks of the confirmation's selection are all drawn.
OptimisticDrawn(m) ==
  \A i \in 1..Len(m.rects) :
    \E k \in 1..Len(pageHighlightData[m.page]) :
      /\ pageHighlightData[m.page][k].localId = m.local_id
      /\ pageHighlightData[m.page][k].highlightId = NoId
      /\ SameGeometry(pageHighlightData[m.page][k], GeometryOf(m.rects[i], m.page))

\* C2: a confirmation that arrives after the optimistic marks were drawn
\* updates them in place: the page has as many marks as before, and for each
\* rect of the selection exactly one mark at that rect's geometry, carrying the
\* highlightId; on the flat page the one span of the localId carries it.
C2_ConfirmationUpdatesInPlace ==
  /\ \A m \in ViewerConfirmations :
       OptimisticDrawn(m) =>
         LET after == MarksAfter(pageHighlightData, m)[m.page]
         IN /\ Len(after) = Len(pageHighlightData[m.page])
            /\ \A i \in 1..Len(m.rects) :
                 Cardinality({k \in 1..Len(after) :
                    /\ SameGeometry(after[k], GeometryOf(m.rects[i], m.page))
                    /\ after[k].localId = m.local_id
                    /\ after[k].highlightId = m.highlight_id}) = 1
  /\ \A m \in Waiting("page", "HTML_HIGHLIGHT_SAVED") :
       (\E s \in htmlMarks : s.localId = m.local_id) =>
         LET spans == SavedMarks(highlightRegistry, htmlMarks, m)
         IN /\ Cardinality(spans) = Cardinality(htmlMarks)
            /\ \A s \in spans : s.localId = m.local_id => s.highlightId = m.highlight_id

\* Marks of a sequence that satisfy a test, in their order.
RECURSIVE Keep(_, _)
Keep(marks, wanted) ==
  IF Len(marks) = 0 THEN <<>>
  ELSE (IF Head(marks) \in wanted THEN <<Head(marks)>> ELSE <<>>)
       \o Keep(Tail(marks), wanted)

MarkSet(marks) == {marks[i] : i \in 1..Len(marks)}

\* C3: a removal request that contains only a highlightId removes the marks
\* carrying that highlightId and no other mark, whatever localId they share.
C3_HighlightIdOnlyRemoval ==
  \A m \in ViewerRemovals :
    m.highlight_id # NoId /\ m.local_id = NoId =>
      LET marks == pageHighlightData[m.page]
      IN CancelledOverlay(pageHighlightData, m)[m.page] =
           Keep(marks, {k \in MarkSet(marks) : k.highlightId # m.highlight_id})

\* C3 witness: such a request waits at the viewer while one mark carries its
\* highlightId together with a localId and another mark has only that localId.
C3_SharedLocalId ==
  \E m \in ViewerRemovals :
    /\ m.highlight_id # NoId /\ m.local_id = NoId
    /\ \E a, b \in MarkSet(pageHighlightData[m.page]) :
         /\ a.highlightId = m.highlight_id /\ a.localId # NoId
         /\ b.localId = a.localId /\ b.highlightId # m.highlight_id

\* The marks a removal by priority (first criterion that matches wins) takes.
PriorityTargets(marks, m) ==
  LET byHighlightId == {k \in MarkSet(marks) :
                          m.highlight_id # NoId /\ k.highlightId = m.highlight_id}
      byLocalId == {k \in MarkSet(marks) : m.local_id # NoId /\ k.localId = m.local_id}
      byFingerprint == {k \in MarkSet(marks) :
                          m.fingerprint # NoFingerprint /\ k.fingerprint = m.fingerprint}
  IN IF byHighlightId # {} THEN byHighlightId
     ELSE IF byLocalId # {} THEN byLocalId
     ELSE byFingerprint

\* C4 as the specification words it: the removal takes the marks of the first
\* criterion that matches any: highlightId, else localId, else fingerprint.
C4_RemovalByPriority ==
  \A m \in ViewerRemovals :
    LET marks == pageHighlightData[m.page]
    IN CancelledOverlay(pageHighlightData, m)[m.page] =
         Keep(marks, MarkSet(marks) \ PriorityTargets(marks, m))

\* C4: the removal takes every mark that carries the request's highlightId
\* and every mark that carries the request's localId; the fingerprint counts
\* only when the request carries neither identifier.
C4_RemovalByEitherIdentifier ==
  \A m \in ViewerRemovals :
    LET marks == pageHighlightData[m.page]
        taken == {k \in MarkSet(marks) :
                    \/ (m.highlight_id # NoId /\ k.highlightId = m.highlight_id)
                    \/ (m.local_id # NoId /\ k.localId = m.local_id)
                    \/ (m.highlight_id = NoId /\ m.local_id = NoId
                        /\ m.fingerprint # NoFingerprint
                        /\ k.fingerprint = m.fingerprint)}
    IN CancelledOverlay(pageHighlightData, m)[m.page] = Keep(marks, MarkSet(marks) \ taken)

\* C4 witness: a request with both identifiers waits at the viewer while one
\* mark carries its highlightId and a different mark only its localId.
C4_BothIdentifiers ==
  \E m \in ViewerRemovals :
    /\ m.highlight_id # NoId /\ m.local_id # NoId
    /\ \E a, b \in MarkSet(pageHighlightData[m.page]) :
         /\ a.highlightId = m.highlight_id
         /\ b.highlightId # m.highlight_id /\ b.localId = m.local_id

\* The highlightIds drawn in the context that shows the document.
DrawnIds(url) ==
  IF url = PageUrl THEN {s.highlightId : s \in htmlMarks} \ {NoId}
  ELSE {h \in HighlightIds : \E p \in Pages : MarksWith(pageHighlightData[p], h) # {}}

\* C5: once nothing is in flight (no call to the persistence service, no
\* message waiting anywhere), a highlightId is in a document's cached
\* highlights exactly when a mark with it is drawn in the context that shows
\* the document.
C5_CacheMatchesMarks ==
  AtRest =>
    \A url \in DocUrls : CachedIds(documentsIndex[url]) = DrawnIds(url)

\* The two messages speak of the same highlight.
SameHighlight(a, b) ==
  \/ (a.highlight_id # NoId /\ a.highlight_id = b.highlight_id)
  \/ (a.local_id # NoId /\ a.local_id = b.local_id)

\* C6: a removal is final. When a removal and a confirmation of the same
\* highlight both wait at a context, applying the removal and then the (late
\* or duplicated) confirmation leaves no mark of the highlight there.
C6_RemovedIsFinal ==
  /\ \A removal \in ViewerRemovals, m \in ViewerConfirmations :
       SameHighlight(removal, m) =>
         LET removed == CancelledOverlay(pageHighlightData, removal)
         IN MarksWith(MarksAfter(removed, m)[m.page], m.highlight_id) = {}
  /\ \A removal \in Waiting("page", "HTML_HIGHLIGHT_REMOVED"),
        m \in Waiting("page", "HTML_HIGHLIGHT_SAVED") :
       SameHighlight(removal, m) =>
         LET registry == RegistryDelete(highlightRegistry,
                                        ResolvedLocalId(highlightRegistry, removal))
             spans == RemovedMarks(highlightRegistry, htmlMarks, removal)
         IN \A s \in SavedMarks(registry, spans, m) :
              s.highlightId # m.highlight_id /\ s.localId # m.local_id

\* C7: when the create call for a selection fails, HTML_HIGHLIGHT_SAVE_FAILED
\* for its localId reaches the context that drew the optimistic mark (the flat
\* page or the PDF viewer), and applying it takes the mark away.
C7_CreateFailureRollsBack ==
  [][/\ \A call \in apiCalls :
          (call.op = "POST" /\ call.localId # NoId /\ ApiRespondSave(call, FALSE)) =>
            [type |-> "HTML_HIGHLIGHT_SAVE_FAILED", local_id |-> call.localId]
              \in inbox'[IF call.isPdf THEN "viewer" ELSE "page"]
     /\ \A m \in Waiting("page", "HTML_HIGHLIGHT_SAVE_FAILED") :
          \A s \in SaveFailedMarks(highlightRegistry, htmlMarks, m) :
            s.localId # m.local_id]_vars

\* The tab still shows a mark with one of the identifiers.
StillDrawn(tab, highlightId, localId) ==
  IF tab = PageTab
  THEN \E s \in htmlMarks : \/ (highlightId # NoId /\ s.highlightId = highlightId)
                            \/ (localId # NoId /\ s.localId = localId)
  ELSE \E p \in Pages : \E i \in 1..Len(pageHighlightData[p]) :
         \/ (highlightId # NoId /\ pageHighlightData[p][i].highlightId = highlightId)
         \/ (localId # NoId /\ pageHighlightData[p][i].localId = localId)

\* C8: when a removal a tab asked for fails (the delete call fails, or there
\* is no session), the tab that asked still shows the mark: the handlers of
\* HTML_HIGHLIGHT_REMOVE_FAILED change no mark, so it must be there when the
\* failure is announced.
C8_FailedRemovalKeepsMark ==
  [][/\ \A call \in apiCalls :
          (call.op = "DELETE" /\ call.tabId # NoId /\ ApiRespondDelete(call, FALSE)) =>
            StillDrawn(call.tabId, call.highlightId, call.localId)'
     /\ \A m \in Waiting("panel", "HTML_HIGHLIGHT_REMOVE_REQUEST") :
          (~currentSession /\ PanelRemoveRequest(m)) =>
            StillDrawn(m.tabId, m.highlight_id, m.local_id)']_vars

\* The message speaks of a highlight that was never confirmed.
LocalOnly(m) == m.highlight_id = NoId /\ m.local_id # NoId

\* A removal broadcast for the localId waits at the context.
LocalRemovalSent(box, ctx, type, localId) ==
  \E m \in box[ctx] : m.type = type /\ LocalOnly(m) /\ m.local_id = localId

C10_RemovalPrunesCache ==
  [][\A call \in apiCalls :
       call.op = "DELETE" =>
         /\ ApiRespondDelete(call, TRUE) =>
              \A url \in DocUrls :
                /\ call.highlightId \notin CachedIds(documentsIndex'[url])
                /\ \A i \in 1..Len(documentsIndex'[url].highlight_order) :
                     documentsIndex'[url].highlight_order[i] # call.highlightId
         /\ ApiRespondDelete(call, FALSE) => documentsIndex' = documentsIndex]_vars

\* ------------------------------------------------------------------- C11
\* The annotator works on the flat page in a session. Every message is
\* eventually handled by each listener it waits at, every call is eventually
\* answered, and Save is pressed on the card while it is shown.
FairInit == Init /\ openTabs = {PageTab} /\ currentSession
FairNext == PageNext \/ PanelNext
Fairness ==
  /\ WF_vars(\E m \in inbox["bg"] : BgRelay(m))
  /\ WF_vars(\E m \in inbox["panel"], ok \in BOOLEAN : PanelForwardSelection(m, ok))
  /\ WF_vars(\E m \in inbox["panel"] : PanelRemoveRequest(m))
  /\ WF_vars(\E call \in apiCalls, ok \in BOOLEAN : ApiRespondSave(call, ok))
  /\ WF_vars(\E call \in apiCalls, ok \in BOOLEAN : ApiRespondDelete(call, ok))
  /\ WF_vars(\E m \in inbox["page"] : PageSaved(m))
  /\ WF_vars(\E m \in inbox["page"] : PageSaveFailed(m))
  /\ WF_vars(\E m \in inbox["page"] : PageRemoved(m))
  /\ WF_vars(\E m \in inbox["page"] : PageRemoveFailed(m))
  /\ WF_vars(PanelSaveClick)
FairSpec == FairInit /\ [][FairNext]_vars /\ Fairness

\* The optimistic mark of the localId is drawn and has no highlightId.
PendingLocal(localId) ==
  \/ \E s \in htmlMarks : s.localId = localId /\ s.highlightId = NoId
  \/ \E p \in Pages : \E i \in 1..Len(pageHighlightData[p]) :
       /\ pageHighlightData[p][i].localId = localId
       /\ pageHighlightData[p][i].highlightId = NoId

\* C11: no mark stays PendingLocal forever: a drawn mark without a
\* highlightId eventually carries one or is removed.
C11_PendingResolves ==
  \A localId \in LocalIds : PendingLocal(localId) ~> ~PendingLocal(localId)

\* ------------------------------------------------------------------- C12
\* C12: create is applied once per committed selection: a Save pressed on a
\* card whose highlight is already confirmed issues a PATCH of that
\* highlightId, and no create call succeeds for a selection the saved-notes
\* summary already holds as confirmed (one cached highlight per selection).
C12_CreateAppliedOnce ==
  [][/\ (card # NoCard /\ card.highlightId # NoId /\ PanelSaveClick) =>
          \A call \in apiCalls' \ apiCalls :
            call.op = "PATCH" /\ call.highlightId = card.highlightId
     /\ \A call \in apiCalls :
          (call.op = "POST" /\ call.localId # NoId /\ ApiRespondSave(call, TRUE)) =>
            \A e \in summary : e.localId # call.localId]_vars

\* ------------------------------------------------------------------- C13
\* C13: a highlightId, once carried, is the mark's canonical key. In every
\* step that removes no mark of a PDF page, each mark that carried a
\* highlightId carries the same highlightId and the same localId afterwards;
\* on the flat page a span with a highlightId either stays as it is or is
\* removed.
C13_HighlightIdIsCanonical ==
  [][/\ \A p \in Pages :
          Len(pageHighlightData'[p]) >= Len(pageHighlightData[p]) =>
            \A i \in 1..Len(pageHighlightData[p]) :
              pageHighlightData[p][i].highlightId # NoId =>
                /\ pageHighlightData'[p][i].highlightId
                     = pageHighlightData[p][i].highlightId
                /\ pageHighlightData'[p][i].localId = pageHighlightData[p][i].localId
     /\ \A s \in htmlMarks :
          s.highlightId # NoId =>
            \/ s \in htmlMarks'
            \/ \A t \in htmlMarks' : t.localId # s.localId]_vars


\* ------------------------------------------------------------------- C14
\* C14: a confirmation that arrives for a page without a viewport is
\* appended to that page's pending queue and leaves the marks alone; in the
\* step that renders the page, the queue is emptied and every queued rect
\* becomes exactly one mark, at the rect's geometry normalised by the page's
\* new viewport.
C14_QueueFlushedOnce ==
  [][/\ \A m \in ViewerConfirmations :
          (m.url = PdfUrl /\ m.page \in Pages /\ pageViewports[m.page] = NoViewport
           /\ ViewerCreated(m))
          => /\ pageHighlightData' = pageHighlightData
             /\ pendingHighlightQueue'[m.page]
                  = pendingHighlightQueue[m.page] \o CreatedRects(m)
     /\ \A p \in Pages :
          (pageViewports[p] = NoViewport /\ pageViewports'[p] # NoViewport
           /\ Len(pendingHighlightQueue[p]) > 0)
          => /\ pendingHighlightQueue'[p] = <<>>
             /\ \A i \in 1..Len(pendingHighlightQueue[p]) :
                  Cardinality({k \in 1..Len(pageHighlightData'[p]) :
                     SameGeometry(pageHighlightData'[p][k],
                                  normaliseRect(pendingHighlightQueue[p][i],
                                                pageViewports'[p]))}) = 1]_vars


\* ------------------------------------------------------------------- C15
\* The step is a zoom change of pages that were rendered before it.
ZoomChange ==
  /\ currentScale' # currentScale
  /\ viewerListening'
  /\ \A p \in Pages : pageViewports[p] # NoViewport

\* C15: a zoom change leaves the stored marks as they were, in coordinates
\* and in number, and zooming back to the scale before it paints every mark
\* at the pixel position it had at that scale.
C15_ZoomInvariance ==
  [][ZoomChange
     => /\ pageHighlightData' = pageHighlightData
        /\ LET back == Rescaled(pageViewports', pageHighlightData',
                                pendingHighlightQueue', currentScale', currentScale)
           IN /\ back.scale = currentScale
              /\ back.data = pageHighlightData
              /\ \A p \in Pages :
                   OverlayBoxes(back.data[p], back.viewports[p])
                     = OverlayBoxes(pageHighlightData[p], pageViewports[p])]_vars

\* A mark captured at scale 2.0 is shown at scale 0.5.
C15_ZoomedMark ==
  /\ currentScale = 50
  /\ \E p \in Pages : \E i \in 1..Len(pageHighlightData[p]) :
       /\ pageHighlightData[p][i].fingerprint = Fingerprint(ClientRect(RectA, 200))
       /\ OverlayBoxes(pageHighlightData[p], pageViewports[p])[i].left
            = [n |-> ClientRect(RectA, 50).x1, d |-> 1]


\* ------------------------------------------------------------------- C16
\* The ids of a highlight array, in its order.
IdsOf(highlights) == [i \in 1..Len(highlights) |-> highlights[i].highlight_id]

\* The ids of a document's summary entries as the summary lists them, and in
\* the order in which they were added.
SummaryIds(entries, url) ==
  LET listed == sortHighlights(entries, url)
  IN [i \in 1..Len(listed) |-> listed[i].highlightId]

InsertionIds(entries, url) ==
  LET ofDocument == {item \in entries : item.url = url}
  IN [i \in 1..Cardinality(ofDocument) |->
        (CHOOSE item \in ofDocument : item.addedIndex = i).highlightId]

\* after is before rearranged by the order: the ids the order names first,
\* in its order, the others behind them as they followed each other in before.
OrderApplied(before, after, order) ==
  /\ Len(after) = Len(before)
  /\ \A id \in HighlightIds :
       Cardinality({i \in 1..Len(after) : after[i] = id})
         = Cardinality({i \in 1..Len(before) : before[i] = id})
  /\ \A i, j \in 1..Len(after) :
       i < j =>
         IF RankIn(order, after[i]) > 0
         THEN RankIn(order, after[j]) = 0
              \/ RankIn(order, after[i]) < RankIn(order, after[j])
         ELSE /\ RankIn(order, after[j]) = 0
              /\ RankIn(before, after[i]) < RankIn(before, after[j])

NoRepeats(order) == \A i, j \in 1..Len(order) : order[i] = order[j] => i = j

\* unique is listed without its repeated ids, first occurrences kept.
FirstOccurrences(unique, listed) ==
  /\ NoRepeats(unique)
  /\ {unique[i] : i \in 1..Len(unique)} = {listed[i] : i \in 1..Len(listed)}
  /\ \A i, j \in 1..Len(unique) :
       i < j => RankIn(listed, unique[i]) < RankIn(listed, unique[j])

\* The highlights of the array that the order names come first, in its order.
SortedToMatch(highlights, order) ==
  LET ids == IdsOf(highlights)
      named == {i \in 1..Len(ids) : RankIn(order, ids[i]) > 0}
  IN /\ named = 1..Cardinality(named)
     /\ \A i, j \in named : i < j => RankIn(order, ids[i]) < RankIn(order, ids[j])

DocumentCalls(calls) == {call \in calls : call.op = "DOCUMENT"}

\* C18: ensureDocument issues a create call for a URL only when the session
\* has no document for it and no create call for it is in flight, and the
\* call resolves to the documentId the URL has.
C18_EnsureDocumentOnce ==
  [][/\ \A call \in DocumentCalls(apiCalls') \ DocumentCalls(apiCalls) :
          /\ documentsIndex[call.url] = NoDoc
          /\ \A other \in DocumentCalls(apiCalls) : other.url # call.url
     /\ \A call \in DocumentCalls(apiCalls) :
          EnsureDocumentSettled(call, TRUE)
          => documentsIndex'[call.url].document_id = DocumentIdOf(call.url)]_vars


\* ------------------------------------------------------------------- C19
\* The summary entries of other highlights, whatever their place in the
\* order of insertion.
OtherEntries(entries, highlightId) ==
  {[item EXCEPT !.addedIndex = 0] :
     item \in {other \in entries : other.highlightId # highlightId}}

\* C19: when a PATCH of a saved highlight succeeds, the cached array of its
\* document holds the same highlightIds in the same order as before, the
\* other highlights of the array, the other documents and the summary
\* entries of other highlights are what they were.
C19_PatchInPlace ==
  [][\A call \in apiCalls :
       (call.op = "PATCH" /\ documentsIndex[call.url] # NoDoc
        /\ ApiRespondSave(call, TRUE))
       => /\ IdsOf(documentsIndex'[call.url].highlights)
               = IdsOf(documentsIndex[call.url].highlights)
          /\ \A i \in 1..Len(documentsIndex[call.url].highlights) :
               documentsIndex[call.url].highlights[i].highlight_id # call.highlightId
               => documentsIndex'[call.url].highlights[i]
                    = documentsIndex[call.url].highlights[i]
          /\ \A url \in DocUrls \ {call.url} : documentsIndex'[url] = documentsIndex[url]
          /\ OtherEntries(summary', call.highlightId)
               = OtherEntries(summary, call.highlightId)]_vars


\* ------------------------------------------------------------------- C20
\* C20: the documents entry of the shared store changes only in steps of the
\* side panel (which stores its cache); no step of the viewer, the flat page
\* or the background worker changes it.
C20_PanelIsSingleWriter ==
  [][storedDocuments' # storedDocuments
     => \/ \E m \in inbox["panel"], ok \in BOOLEAN : PanelForwardSelection(m, ok)
        \/ \E m \in inbox["panel"] : PanelSelectionArrived(m)
        \/ \E call \in apiCalls, ok \in BOOLEAN : EnsureDocumentSettled(call, ok)
        \/ \E call \in apiCalls, ok \in BOOLEAN : ApiRespondSave(call, ok)
        \/ \E call \in apiCalls, ok \in BOOLEAN : ApiRespondDelete(call, ok)
        \/ \E m \in inbox["panel"] : PanelPdfCancelled(m)
        \/ \E m \in inbox["panel"] : PanelReviewSaved(m)]_vars


\* ------------------------------------------------------------------- C25
\* The message names no mark of the viewer: no mark of any page carries its
\* localId or its highlightId.
UnknownToViewer(m) ==
  \A p \in Pages : \A i \in 1..Len(pageHighlightData[p]) :
    /\ ~(Field(m, "local_id") # NoId /\ pageHighlightData[p][i].localId = Field(m, "local_id"))
    /\ ~(Field(m, "highlight_id") # NoId /\ pageHighlightData[p][i].highlightId = Field(m, "highlight_id"))

\* The message names no mark of the flat page: neither the registry nor a
\* span carries its localId or its highlightId.
UnknownToPage(m) ==
  /\ Field(m, "local_id") \notin DOMAIN highlightRegistry
  /\ RegistryKeyOf(highlightRegistry, Field(m, "highlight_id")) = NoId
  /\ \A s \in htmlMarks :
       /\ ~(Field(m, "local_id") # NoId /\ s.localId = Field(m, "local_id"))
       /\ ~(Field(m, "highlight_id") # NoId /\ s.highlightId = Field(m, "highlight_id"))

Within001(p, q) == Abs(p.n * q.d - q.n * p.d) * 100 < p.d * q.d

\* Two marks cover the same place of the page up to the 0.01 normalised
\* tolerance.
SamePlace(a, b) ==
  /\ Within001(a.x1, b.x1) /\ Within001(a.y1, b.y1)
  /\ Within001(a.x2, b.x2) /\ Within001(a.y2, b.y2)

\* C30: fingerprint stability. Two captures of the same passage whose rects
\* differ by less than 0.01 of the page (a capture repeated at another zoom,
\* or shifted by a pixel) have equal fingerprints: any two marks of a page
\* that cover the same place up to that tolerance carry the same fingerprint.
C30_FingerprintStable ==
  \A p \in Pages : \A i, j \in 1..Len(pageHighlightData[p]) :
    SamePlace(pageHighlightData[p][i], pageHighlightData[p][j])
      => pageHighlightData[p][i].fingerprint = pageHighlightData[p][j].fingerprint


\* ------------------------------------------------------------------- C21
\* The selection messages a step hands to the background worker.
SelectionsSent ==
  {m \in inbox'["bg"] \ inbox["bg"] : m.type \in {"CONTENT_SELECTION", "PDF_SELECTION"}}

\* The localIds the marks of an agent carry.
MarkedLocalIds(agent) ==
  IF agent = "page" THEN {s.localId : s \in htmlMarks}
  ELSE UNION {{pageHighlightData[p][i].localId : i \in 1..Len(pageHighlightData[p])} :
                p \in Pages}

\* A step is a commit of the agent's pending selection (the channel works).
CommitOf(agent) ==
  IF agent = "page" THEN \E wrapped \in BOOLEAN : PageCommitPending(wrapped, "delivered")
  ELSE \E sentiment \in {"thumbsup", "thumbsdown"} :
         ViewerCommitPending(sentiment, "delivered")

\* C21: every commit of a pending selection assigns a fresh non-null
\* localId (one no mark carried before), draws the optimistic mark with that
\* localId, sends exactly one selection message carrying the same localId,
\* and leaves the agent without a pending selection.
C21_CommitIsComplete ==
  [][\A agent \in Agents :
       CommitOf(agent) =>
         /\ nextLocal' # NoId
         /\ nextLocal' \notin MarkedLocalIds(agent)
         /\ nextLocal' \in MarkedLocalIds(agent)'
         /\ Cardinality(SelectionsSent) = 1
         /\ \A m \in SelectionsSent : m.local_id = nextLocal'
         /\ pendingSelection'[agent] = NoPending]_vars


\* ------------------------------------------------------------------- C22
\* A step cancels the agent's pending selection: the popover's Cancel or
\* Escape on the flat page, a mouse press outside the toolbar in the viewer,
\* or the agent's tab being hidden by a switch to another tab.
Cancels(agent) ==
  \/ agent = "page" /\ (PageCancel \/ PageEscape)
  \/ agent = "viewer" /\ \E selection \in {NoSelection} \cup
                              {Spread(s, [page |-> p]) : s \in ViewerSelections, p \in Pages} :
                           ViewerSelect(selection)
  \/ activeTab = AgentUrl(agent) /\ \E url \in {PageUrl, ViewerTabUrl} : TabActivated(url)

\* C22: a pending selection that is cancelled (dismissed, or its page
\* hidden) is discarded. After a step that cancels an agent's pending
\* selection the agent holds no pending selection, so that no selection
\* message can be sent for it; and a commit sends the message of the
\* selection that was pending, nothing else.
C22_CancelDiscards ==
  [][\A agent \in Agents :
       /\ (pendingSelection[agent] # NoPending /\ Cancels(agent))
            => pendingSelection'[agent] = NoPending
       /\ SelectionsSent # {} /\ CommitOf(agent) => pendingSelection[agent] # NoPending]_vars


\* ------------------------------------------------------------------- C23
\* A step is a run of an agent's handleSelection.
Detects(agent) ==
  IF agent = "page" THEN \E outcome \in SendOutcomes : PageHandleSelection(outcome)
  ELSE ViewerHandleSelection

\* C23: entering PendingSelection has no side effects. A run of
\* handleSelection (the detection of a selection) sends no message, schedules
\* none and draws no mark: the inboxes, the retry timers, the spans and the
\* registry of the flat page and the marks of the viewer are as before.
C23_DetectionHasNoSideEffects ==
  [][\A agent \in Agents :
       Detects(agent) =>
         UNCHANGED <<inbox, sendTimers, htmlMarks, highlightRegistry, pageHighlightData,
                     pendingHighlightQueue>>]_vars

\* ------------------------------------------------------------------- C24
\* C24: redundant selection events are suppressed. A run of handleSelection
\* for a selection that an earlier run has handled already, and that the
\* annotator has not changed since, creates no pending selection and sends
\* no selection message.
C24_UnchangedSelectionSuppressed ==
  [][\A agent \in Agents :
       (/\ windowSelection[agent] # NoSelection
        /\ windowSelection[agent].handled
        /\ Detects(agent))
         => /\ pendingSelection'[agent] = pendingSelection[agent]
            /\ SelectionsSent = {}]_vars


\* ------------------------------------------------------------------ C26

C27_DuplicateSearchSuppressed ==
  \A i \in 1..Len(searchCalls), j \in 1..Len(searchCalls) :
    (/\ i < j
     /\ searchCalls[i].tab = searchCalls[j].tab
     /\ \A k \in (i + 1)..(j - 1) : searchCalls[k].tab # searchCalls[i].tab)
      => \/ searchCalls[i].platform # searchCalls[j].platform
         \/ searchCalls[i].query # searchCalls[j].query


\* ------------------------------------------------------------------ C29

\* The lifecycle message the background worker takes from its inbox in this
\* step, as a set: empty when the step is no relay.
RelayedNow ==
  {m \in inbox["bg"] : m \notin inbox'["bg"] /\ m.type \in RelayTypes}

\* The messages this step has put into the inboxes of the other contexts.
SentOn ==
  UNION {inbox'[c] \ inbox[c] : c \in Contexts \ {"bg"}}

\* C29: the background worker is a pure relay for highlight lifecycle
\* messages. What it sends on carries every field of the message received
\* with the value received, adds nothing but the sender's tab id, and the
\* relay changes neither lastSearchByTab nor the trajectory log. (`type` is
\* the forwarded name and `relayed` tells the worker's copy of a broadcast
\* from the original: both belong to the envelope.)
C29_PureRelay ==
  [][\A m \in RelayedNow :
       /\ \A sent \in SentOn :
            /\ \A f \in DOMAIN m \ {"type", "relayed"} :
                 f \in DOMAIN sent /\ sent[f] = m[f]
            /\ DOMAIN sent \subseteq DOMAIN m \cup {"tabId", "relayed"}
            /\ "tabId" \in DOMAIN sent => sent.tabId = m.tab
       /\ UNCHANGED <<lastSearchByTab, trajectory, bgCalls, searchCalls, clock>>]_vars

\* A selection of the page has been relayed to the side panel after a search
\* episode was recorded for the page's tab and written to the log.
C29_Witness ==
  /\ \E m \in inbox["panel"] :
       m.type = "FORWARD_SELECTION" /\ m.tabId = PageTab /\ m.local_id # NoId
  /\ lastSearchByTab[PageTab] # NoSearch
  /\ trajectory.searchEpisodes # <<>>


\* ------------------------------------------------------------------ C28

\* One of the two lists of the log has a new entry in front and has lost at
\* most its last (oldest) entry; the other list is as it was.
Recorded(old, new) ==
  \/ /\ new.searchEpisodes # <<>>
     /\ new.searchEpisodes =
          Capped(<<Head(new.searchEpisodes)>> \o old.searchEpisodes)
     /\ new.interactions = old.interactions
  \/ /\ new.interactions # <<>>
     /\ new.interactions = Capped(<<Head(new.interactions)>> \o old.interactions)
     /\ new.searchEpisodes = old.searchEpisodes

\* C28: the trajectory log is capped. The stored log and the side panel's
\* copy never hold more than 50 search episodes or 50 interactions, and every
\* change of a log puts one new entry in front of one list and drops nothing
\* but the oldest entry of that list when it was full.
C28_LogCappedNewestFirst ==
  [][/\ Len(trajectory'.searchEpisodes) <= TrajectoryCap
     /\ Len(trajectory'.interactions) <= TrajectoryCap
     /\ Len(trajectoryIndex'.searchEpisodes) <= TrajectoryCap
     /\ Len(trajectoryIndex'.interactions) <= TrajectoryCap
     /\ trajectory' # trajectory => Recorded(trajectory, trajectory')
     /\ trajectoryIndex' # trajectoryIndex
          => Recorded(trajectoryIndex, trajectoryIndex')]_vars


\* ------------------------------------------------------------------- C40
\* The selection the viewer commits in this step, as a set: its
\* PDF_SELECTION message, when the page is rendered.
CommittedNow ==
  {m \in inbox'["bg"] \ inbox["bg"] :
     /\ m.type = "PDF_SELECTION"
     /\ nextLocal' # nextLocal
     /\ pageViewports[m.page] # NoViewport}

\* The marks of the page that carry the fingerprint, before and after the step.
MarksCarrying(data, p, fingerprint) ==
  {k \in 1..Len(data[p]) : data[p][k].fingerprint = fingerprint}

\* C40: insertion is last-write-wins for equal fingerprints. When a committed
\* selection has a rect whose fingerprint a mark of the page already carries,
\* the page holds exactly one mark with that fingerprint afterwards, and it
\* carries the new selection's localId, no highlightId and the new colour.
C40_LastWriteWins ==
  [][\A m \in CommittedNow : \A i \in 1..Len(m.rects) :
       LET fingerprint == Fingerprint(m.rects[i])
           after == MarksCarrying(pageHighlightData', m.page, fingerprint)
       IN MarksCarrying(pageHighlightData, m.page, fingerprint) # {}
            => /\ Cardinality(after) = 1
               /\ \A k \in after :
                    /\ pageHighlightData'[m.page][k].localId = m.local_id
                    /\ pageHighlightData'[m.page][k].highlightId = NoId
                    /\ pageHighlightData'[m.page][k].color =
                         sentimentToOverlayColor(m.sentiment)]_vars


\* ------------------------------------------------------------------- C31
\* The place a mark is stored at.
PlaceOf(mark) == <<mark.x1, mark.y1, mark.x2, mark.y2>>

\* The confirmation the viewer handles in this step, as a set: a
\* PDF_HIGHLIGHT_CREATED of one rect for a rendered page that holds the
\* optimistic mark of its localId.
ConfirmedNow ==
  {m \in inbox["viewer"] \ inbox'["viewer"] :
     /\ m.type = "PDF_HIGHLIGHT_CREATED"
     /\ m.url = PdfUrl /\ m.page \in Pages
     /\ Len(m.rects) = 1
     /\ pageViewports[m.page] # NoViewport
     /\ Cardinality({k \in 1..Len(pageHighlightData[m.page]) :
                       pageHighlightData[m.page][k].localId = m.local_id}) = 1}

\* C31: normalised coordinates are relative to the page at the scale of
\* capture. A confirmation that arrives after the viewer has changed its
\* scale is stored at the place of its optimistic mark: the page has as many
\* marks as before, each at the place it had, and the mark of the
\* confirmation's localId carries the highlightId.
C31_InsertedAtCaptureScale ==
  [][\A m \in ConfirmedNow :
       LET before == pageHighlightData[m.page]
           after == pageHighlightData'[m.page]
       IN /\ Len(after) = Len(before)
          /\ \A k \in 1..Len(before) :
               /\ PlaceOf(after[k]) = PlaceOf(before[k])
               /\ before[k].localId = m.local_id
                    => after[k].highlightId = m.highlight_id]_vars


\* ------------------------------------------------------------------- C34
\* The create calls of ensureDocument that settle in this step.
EnsuredNow == {call \in apiCalls \ apiCalls' : call.op = "DOCUMENT"}

\* C34: ensureDocument never loses an entry of the session's document cache.
\* When its create call for a URL settles, the cached entry of every other
\* URL is what it was, and an entry the URL had keeps its highlights.
C34_EnsureKeepsEntries ==
  [][\A call \in EnsuredNow : \A u \in DocUrls :
       /\ u # call.url => documentsIndex'[u] = documentsIndex[u]
       /\ (u = call.url /\ documentsIndex[u] # NoDoc)
            => documentsIndex'[u].highlights = documentsIndex[u].highlights]_vars


\* ------------------------------------------------------------------- C36
\* The identifiers of the highlight whose removal the side panel processes
\* in this step: of a PDF_HIGHLIGHT_CANCELLED it receives, or of a DELETE
\* call that settles.
RemovedNow ==
  {[highlightId |-> m.highlight_id, localId |-> m.local_id] :
     m \in {n \in inbox["panel"] \ inbox'["panel"] : n.type = "PDF_HIGHLIGHT_CANCELLED"}}
  \cup {[highlightId |-> call.highlightId, localId |-> call.localId] :
          call \in {c \in apiCalls \ apiCalls' : c.op = "DELETE"}}

\* A card or an entry of the summary is of the highlight with these identifiers.
RefersTo(item, removed) ==
  \/ removed.highlightId # NoId /\ item.highlightId = removed.highlightId
  \/ removed.localId # NoId /\ item.localId = removed.localId

\* An entry of the summary but for its position in the list.
SansIndex(item) == [f \in DOMAIN item \ {"addedIndex"} |-> item[f]]

\* C36: processing the removal of a highlight leaves every other highlight
\* untouched in the side panel. An open card of another highlight stays open
\* as it is, the summary keeps the entries of the other highlights, and the
\* cached documents keep the other highlights.
C36_RemovalLeavesOthers ==
  [][\A removed \in RemovedNow :
       /\ (card # NoCard /\ ~RefersTo(card, removed))
            => card' = card /\ activeHighlightRef' = activeHighlightRef
       /\ \A item \in summary :
            ~RefersTo(item, removed)
              => \E kept \in summary' : SansIndex(kept) = SansIndex(item)
       /\ \A u \in DocUrls :
            WithoutHighlight(documentsIndex'[u].highlights, removed.highlightId)
              = WithoutHighlight(documentsIndex[u].highlights, removed.highlightId)]_vars


\* ------------------------------------------------------------------- C38
PdfMarkTypes == {"PDF_HIGHLIGHT_CREATED", "PDF_HIGHLIGHT_CANCELLED"}

\* C38: relaying terminates. The background worker never receives a copy it
\* has sent on itself, so each PDF_HIGHLIGHT_CREATED or PDF_HIGHLIGHT_CANCELLED
\* is sent on once, and the viewer or the side panel handling such a message
\* (its own removal coming back included) sends no message.
C38_RelayTerminates ==
  [][/\ \A m \in inbox'["bg"] : m.type \in PdfMarkTypes => ~m.relayed
     /\ \A c \in {"viewer", "panel"} : \A m \in inbox[c] \ inbox'[c] :
          m.type \in PdfMarkTypes
            => \A d \in Contexts : inbox'[d] \subseteq inbox[d]]_vars

\* The viewer has its own removal back: the worker's copy of the
\* PDF_HIGHLIGHT_CANCELLED the viewer sent is in the viewer's inbox.
C38_Witness ==
  \E m \in inbox["viewer"] :
    m.type = "PDF_HIGHLIGHT_CANCELLED" /\ m.relayed /\ "tab" \in DOMAIN m


\* ------------------------------------------------------------------- C35
\* The messages with which the side panel tells a capture context what became
\* of a highlight.
LifecycleTypes ==
  {"HTML_HIGHLIGHT_SAVED", "HTML_HIGHLIGHT_SAVE_FAILED", "HTML_HIGHLIGHT_REMOVED",
   "HTML_HIGHLIGHT_REMOVE_FAILED", "PDF_HIGHLIGHT_CREATED", "PDF_HIGHLIGHT_CANCELLED"}

\* C35: every HTML_HIGHLIGHT_SAVED, HTML_HIGHLIGHT_SAVE_FAILED,
\* HTML_HIGHLIGHT_REMOVED, HTML_HIGHLIGHT_REMOVE_FAILED, PDF_HIGHLIGHT_CREATED
\* and PDF_HIGHLIGHT_CANCELLED that reaches the content script or the viewer
\* is delivered by the background worker: it arrives in a step of the worker's
\* onMessage, or the worker is handed the message in the step that emits it.
C35_DeliveredByCoordinator ==
  [][\A agent \in Agents : \A m \in inbox'[agent] \ inbox[agent] :
       m.type \in LifecycleTypes
         => \/ \E r \in inbox["bg"] : BgRelay(r) /\ m = Relayed(r)
            \/ m \in inbox'["bg"]]_vars


\* ------------------------------------------------------------------- C32
\* Every entry of the list `old` is in the list `new`, but for entries at the
\* old end of a list that is full afterwards: an entry is gone only together
\* with every entry older than it.
KeptButEvicted(old, new) ==
  \A i \in 1..Len(old) :
    \/ \E k \in 1..Len(new) : new[k] = old[i]
    \/ /\ Len(new) = TrajectoryCap
       /\ \A j \in i..Len(old) : \A k \in 1..Len(new) : new[k] # old[j]

\* C32: the stored trajectory log is append-only under concurrency. No write
\* of the log, also one of two updateTrajectory cycles that overlap, takes a
\* recorded search episode or interaction out of the log of the session,
\* except the oldest entries of a list that the cap pushes out.
C32_LogAppendOnly ==
  [][/\ KeptButEvicted(trajectory.searchEpisodes, trajectory'.searchEpisodes)
     /\ KeptButEvicted(trajectory.interactions, trajectory'.interactions)]_vars


\* ------------------------------------------------------------------- C37
\* C37: AI suggestions returned for a selection are applied only to that
\* selection's card. When the /ai/suggestions request of a selection settles
\* while the card of another selection is shown, the suggestions, the
\* reasoning and the loading state of the card stay as they are.
C37_SuggestionsForOwnCard ==
  [][\A request \in aiRequests \ aiRequests' :
       (card # NoCard /\ card.localId # request.localId) => cardAi' = cardAi]_vars


\* ------------------------------------------------------------------- C39
\* The ids of the requests that settle in this step without suggestions.
SettledWithout ==
  {id \in searchReasonRequests :
     /\ \E i \in 1..Len(intentCalls) :
          intentCalls[i] = id /\ \E outcome \in {"empty", "failed"} :
                                   SearchIntentSettled(i, outcome)
     /\ id \notin aiSuggested'}

\* C39: the search-intent requests of an episode are bounded. At most one
\* request of an episode is under way, no render is pending when a handler
\* has returned, and the render that follows a request that failed or came
\* back empty issues no request for the episode again.
C39_IntentRequestsBounded ==
  [][/\ \A i, j \in 1..Len(intentCalls') :
          intentCalls'[i] = intentCalls'[j] => i = j
     /\ ~pendingTrajectoryRender'
     /\ \A id \in SettledWithout : id \notin searchReasonRequests']_vars


\* ------------------------------------------------------------------- C33
\* The containers of the page that are attached to the viewer element.
ContainersOf(p) == {i \in 1..Len(viewerEl) : viewerEl[i].page = p}

\* C33: once rendering has quiesced after the zoom changes (no renderAllPages
\* is under way and the paper is loaded), the viewer element holds exactly
\* one container per page, the container and the page's viewport are of the
\* final scale, and the overlay layer the marks are painted in is the one of
\* that attached container.
C33_OneContainerPerPage ==
  (renderRuns = {} /\ viewerListening) =>
    \A p \in Pages :
      /\ Cardinality(ContainersOf(p)) = 1
      /\ pageViewports[p] = ViewportAt(currentScale)
      /\ \A i \in ContainersOf(p) :
           /\ viewerEl[i].viewport = ViewportAt(currentScale)
           /\ pageHighlightLayers[p] = viewerEl[i].run

====
